---- MODULE Spec2Model ----
(***************************************************************************)
(* A model of puzzle_helper's search core: the letter-indexed trie, the    *)
(* transposal and letter-bank word searches over it, and the substitution  *)
(* solver with its partitioned workers.                                    *)
(*                                                                         *)
(* Strings are sequences of byte values.  The alphabet is scaled down from *)
(* the 26 letters of the program to NumLetters letters: the upper-case     *)
(* letters are the bytes ASCII_A .. ASCII_A + NumLetters - 1, so the last  *)
(* letter of the model plays the part of 'Z' (the last slot of a node's    *)
(* children).                                                              *)
(***************************************************************************)
EXTENDS Integers, Sequences, FiniteSets, TLC

\* ------------------------------------------------------------------ bounds

\* The letters of the scaled alphabet (26 in the program).
NumLetters == 2
\* The most nodes, besides the root, of a dictionary's trie.
MaxTrieNodes == 2
\* The longest input text of a word search.
MaxTextLen == 2
\* The longest ciphertext of a substitution solve.
MaxCipherLen == 3
\* The largest concurrency asked of a substitution solve.
MaxConcurrency == 2
\* The longest word whose pattern is taken.
MaxPatternLen == 3
\* The longest input of an n-gram scanner.
MaxScanLen == 3
\* The largest window length of an n-gram scanner.
MaxNgramSize == 2
\* The most generations asked of a hill climb.
MaxGenerations == 2
\* The most nested calls the stack of the letter bank search can hold.
MaxStackFrames == 12
\* The most lines of a frequency file.
MaxFreqLines == 3
\* The longest text given to the Caesar shifts.
MaxCaesarLen == 2
\* The most incrementers of an IncrementerIncrementer, and the most values of one.
MaxIncrementers == 3
MaxSliceLen == 3
\* The most matches of a word to partition, and the most partitions.
MaxMatches == 4
MaxPartitions == 3

\* --------------------------------------------------------------- constants

ASCII_A == 65
ASCII_a == 97
SPACE == 32
MaxInt32 == 2147483647
TAB == 9
ASCII_0 == 48
ASCII_9 == 57
ASCII_Z == 90
ASCII_z == 122
\* The last shift of PerformCaesarShifts.
LastShift == 25

UpperLetters == ASCII_A .. (ASCII_A + NumLetters - 1)
LowerLetters == ASCII_a .. (ASCII_a + NumLetters - 1)

\* strings.ToUpper on one byte.
ToUpper(b) == IF b \in LowerLetters THEN b - (ASCII_a - ASCII_A) ELSE b

\* lettersRegex "^[A-Za-z]+$" on a one-byte string.
lettersRegex(b) == b \in UpperLetters \/ b \in LowerLetters

\* A pattern that also takes the empty string, "^[A-Z]*$".
allUppercaseOrEmpty(s) == \A i \in 1..Len(s) : s[i] \in UpperLetters

\* allUppercase "^[A-Z]+$".
allUppercase(s) == Len(s) > 0 /\ \A i \in 1..Len(s) : s[i] \in UpperLetters

\* --------------------------------------------------------------------- trie

\* A trie is a function from the path of a node (the child indexes from the
\* root) to the node's fields.  A child slot is nil exactly when the path
\* through it is no node of the trie.
NumSlots == NumLetters

\* A nil node pointer, and a nil payload value.
nil == <<-1>>
nilValue == "nil"

newTrieWithLetter(letter) == [letter |-> letter, atWordBoundary |-> FALSE, value |-> nilValue]

newTrie == (<<>> :> newTrieWithLetter(<<>>))

\* The path of the node reached from the root over the bytes of s.
PathOf(s) == [i \in 1..Len(s) |-> s[i] - ASCII_A]

Prefix(s, n) == SubSeq(s, 1, n)

children(trie, path, index) ==
    IF Append(path, index) \in DOMAIN trie THEN Append(path, index) ELSE nil

addValueForString(trie, input, value) ==
    IF ~allUppercase(input)
    THEN [err |-> TRUE, trie |-> trie]
    ELSE LET p == PathOf(input)
             created == {Prefix(p, n) : n \in 1..Len(p)} \ DOMAIN trie
             grown == [q \in DOMAIN trie \cup created |->
                         IF q \in DOMAIN trie THEN trie[q]
                         ELSE newTrieWithLetter(<<input[Len(q)]>>)]
         IN [err |-> FALSE,
             trie |-> [grown EXCEPT ![p] = [@ EXCEPT !.atWordBoundary = TRUE,
                                                     !.value = value]]]

\* ReadDictionaryToTrie: every word of the stream is added to a new trie.
RECURSIVE ReadDictionaryToTrie(_)
ReadDictionaryToTrie(words) ==
    IF words = {} THEN newTrie
    ELSE LET w == CHOOSE x \in words : TRUE
         IN addValueForString(ReadDictionaryToTrie(words \ {w}), w, nilValue).trie

\* recursiveFindWords: the words of the trie below a node, in the order they
\* are fed to the channel (the node's own word, then the children by slot).
RECURSIVE recursiveFindWords(_, _, _)
RECURSIVE FindWordsInChildren(_, _, _, _)
recursiveFindWords(trie, node, currentWord) ==
    (IF trie[node].atWordBoundary THEN <<currentWord>> ELSE <<>>)
    \o FindWordsInChildren(0, trie, node, currentWord)

FindWordsInChildren(index, trie, node, currentWord) ==
    IF index >= NumSlots THEN <<>>
    ELSE (IF children(trie, node, index) # nil
          THEN recursiveFindWords(trie, children(trie, node, index),
                                  Append(currentWord, index + ASCII_A))
          ELSE <<>>)
         \o FindWordsInChildren(index + 1, trie, node, currentWord)

FeedWordsToChannel(trie) == recursiveFindWords(trie, <<>>, <<>>)

\* A size that counts the nodes of the trie in place of its words.
getSizeCountingNodes(trie) == Cardinality(DOMAIN trie) - 1

\* getSize: the number of words fed to the channel.
getSize(trie) == Len(FeedWordsToChannel(trie))

\* []byte(curChar)[0] - ASCII_A, in the arithmetic of a byte.
ChildIndex(b) == (b - ASCII_A + 256) % 256

\* getValueForString from a node on, over the bytes of input from index i:
\* the value, whether the string is there, and whether indexing the children
\* went out of range (a run-time panic).
RECURSIVE GetValueFrom(_, _, _, _)
GetValueFrom(trie, currentNode, input, i) ==
    IF i > Len(input)
    THEN IF trie[currentNode].atWordBoundary
         THEN [value |-> trie[currentNode].value, found |-> TRUE, panic |-> FALSE]
         ELSE [value |-> nilValue, found |-> FALSE, panic |-> FALSE]
    ELSE LET childIndex == ChildIndex(input[i])
         IN IF childIndex >= NumSlots
            THEN [value |-> nilValue, found |-> FALSE, panic |-> TRUE]
            ELSE IF children(trie, currentNode, childIndex) = nil
            THEN [value |-> nilValue, found |-> FALSE, panic |-> FALSE]
            ELSE GetValueFrom(trie, children(trie, currentNode, childIndex), input, i + 1)

getValueForString(trie, input) == GetValueFrom(trie, <<>>, input, 1)

\* ------------------------------------------------------------ word search

RECURSIVE SeqsUpTo(_, _)
SeqsUpTo(S, n) ==
    IF n = 0 THEN {<<>>}
    ELSE LET shorter == SeqsUpTo(S, n - 1)
         IN shorter \cup {Append(s, x) : s \in {t \in shorter : Len(t) = n - 1}, x \in S}

DictWords == SeqsUpTo(UpperLetters, MaxTrieNodes) \ {<<>>}

RECURSIVE SubsetsUpTo(_, _)
SubsetsUpTo(S, n) ==
    IF n = 0 THEN {{}}
    ELSE LET smaller == SubsetsUpTo(S, n - 1)
         IN smaller \cup {s \cup {x} : s \in smaller, x \in S}

\* The nodes, besides the root, of the trie of a set of words.
TrieNodes(words) == UNION {{Prefix(w, n) : n \in 1..Len(w)} : w \in words}

Dictionaries ==
    {d \in SubsetsUpTo(DictWords, MaxTrieNodes) : Cardinality(TrieNodes(d)) <= MaxTrieNodes}

\* The bytes of an input text: the letters in both cases and a non-letter.
TextBytes == UpperLetters \cup {ASCII_a, SPACE}

Texts == SeqsUpTo(TextBytes, MaxTextLen)

\* CreateLetterCountsMap: letter -> count, over the letters of the input.
CreateLetterCountsMap(input) ==
    LET letters == {ToUpper(input[i]) : i \in {j \in 1..Len(input) : lettersRegex(input[j])}}
    IN [l \in letters |->
          Cardinality({i \in 1..Len(input) : lettersRegex(input[i]) /\ ToUpper(input[i]) = l})]

\* A decrement that deletes the letter's key whatever its count.
DecrementLetterCountsDeletesKey(letter, currentCounts) ==
    [l \in DOMAIN currentCounts \ {letter} |-> currentCounts[l]]

DecrementLetterCounts(letter, currentCounts) ==
    IF letter \notin DOMAIN currentCounts THEN currentCounts
    ELSE LET kept == {l \in DOMAIN currentCounts : l # letter \/ currentCounts[l] > 1}
         IN [l \in kept |-> IF l # letter THEN currentCounts[l] ELSE currentCounts[l] - 1]

\* CreateLetterSet: the set of the upper-cased letters of the input.
CreateLetterSet(input) ==
    {ToUpper(input[i]) : i \in {j \in 1..Len(input) : lettersRegex(input[j])}}

\* The sends of RecursiveFindTransposals on the solutions channel, in order.
RECURSIVE RecursiveFindTransposals(_, _, _, _, _, _)
RECURSIVE TransposalChildren(_, _, _, _, _, _, _)
RecursiveFindTransposals(rootTrie, currentTrie, letterCounts, currentWordList, currentWord, maxNumWords) ==
    IF DOMAIN letterCounts = {} /\ rootTrie[currentTrie].atWordBoundary
    THEN <<Append(currentWordList, currentWord)>>
    ELSE IF DOMAIN letterCounts = {} THEN <<>>
    ELSE TransposalChildren(0, rootTrie, currentTrie, letterCounts, currentWordList, currentWord, maxNumWords)

\* The loop over currentTrie.children from slot index on.
TransposalChildren(index, rootTrie, currentTrie, letterCounts, currentWordList, currentWord, maxNumWords) ==
    IF index >= NumSlots THEN <<>>
    ELSE IF children(rootTrie, currentTrie, index) = nil
    THEN TransposalChildren(index + 1, rootTrie, currentTrie, letterCounts, currentWordList, currentWord, maxNumWords)
    ELSE IF index = NumSlots - 1
    THEN \* the word break, and the loop ends
         IF rootTrie[currentTrie].atWordBoundary
            /\ Len(Append(currentWordList, currentWord)) <= maxNumWords
         THEN RecursiveFindTransposals(rootTrie, <<>>, letterCounts,
                                       Append(currentWordList, currentWord), <<>>, maxNumWords)
         ELSE <<>>
    ELSE LET childLetter == index + ASCII_A
         IN (IF childLetter \in DOMAIN letterCounts
             THEN RecursiveFindTransposals(rootTrie, children(rootTrie, currentTrie, index),
                                           DecrementLetterCounts(childLetter, letterCounts),
                                           currentWordList, Append(currentWord, childLetter), maxNumWords)
             ELSE <<>>)
            \o TransposalChildren(index + 1, rootTrie, currentTrie, letterCounts,
                                  currentWordList, currentWord, maxNumWords)

\* A test that takes any set of used letters for the full set.
LetterBankSatisfiedAlways(usedLetters, letterSet) == TRUE

\* len(usedLetters) == len(letterSet): every letter of the set has been used.
LetterBankSatisfied(usedLetters, letterSet) == Cardinality(usedLetters) = Cardinality(letterSet)

\* The sends of RecursiveFindLetterBanks on the solutions channel, in order.
RECURSIVE RecursiveFindLetterBanks(_, _, _, _, _, _, _)
RECURSIVE LetterBankChildren(_, _, _, _, _, _, _, _)
RecursiveFindLetterBanks(rootTrie, currentTrie, letterSet, usedLetters, currentWordList, currentWord, maxNumWords) ==
    (IF LetterBankSatisfied(usedLetters, letterSet) /\ rootTrie[currentTrie].atWordBoundary
     THEN <<Append(currentWordList, currentWord)>>
     ELSE <<>>)
    \o LetterBankChildren(0, rootTrie, currentTrie, letterSet, usedLetters, currentWordList, currentWord, maxNumWords)

LetterBankChildren(index, rootTrie, currentTrie, letterSet, usedLetters, currentWordList, currentWord, maxNumWords) ==
    IF index >= NumSlots THEN <<>>
    ELSE IF children(rootTrie, currentTrie, index) = nil
    THEN LetterBankChildren(index + 1, rootTrie, currentTrie, letterSet, usedLetters, currentWordList, currentWord, maxNumWords)
    ELSE IF index = NumSlots - 1
    THEN \* the word break, and the loop ends
         IF rootTrie[currentTrie].atWordBoundary
            /\ Len(Append(currentWordList, currentWord)) <= maxNumWords
         THEN RecursiveFindLetterBanks(rootTrie, <<>>, letterSet, usedLetters,
                                       Append(currentWordList, currentWord), <<>>, maxNumWords)
         ELSE <<>>
    ELSE LET childLetter == index + ASCII_A
         IN (IF childLetter \in letterSet
             THEN RecursiveFindLetterBanks(rootTrie, children(rootTrie, currentTrie, index), letterSet,
                                           usedLetters \cup {childLetter},
                                           currentWordList, Append(currentWord, childLetter), maxNumWords)
             ELSE <<>>)
            \o LetterBankChildren(index + 1, rootTrie, currentTrie, letterSet, usedLetters,
                                  currentWordList, currentWord, maxNumWords)

\* A test that checks the word count alone.
SolutionIsValidCountOnly(solution, minWordLen, maxWordLen, minNumWords, maxNumWords) ==
    ~(Len(solution) < minNumWords \/ Len(solution) > maxNumWords)

\* The collector's test of one received word list.
SolutionIsValid(solution, minWordLen, maxWordLen, minNumWords, maxNumWords) ==
    /\ ~(Len(solution) < minNumWords \/ Len(solution) > maxNumWords)
    /\ \A i \in 1..Len(solution) :
          ~(Len(solution[i]) < minWordLen \/ Len(solution[i]) > maxWordLen)

VARIABLES
    solver,         \* "transposal" or "letterbank": the entry point called
    dictWords,      \* the words the dictionary was read from
    dictionary,     \* the trie
    sourceText,     \* the input text
    params,         \* minWordLen, maxWordLen, minNumWords, maxNumWords
    startLetters,   \* the letters of the start loop not yet visited
    toSend,         \* the sends the running branch of the search has yet to make
    emitted,        \* every word list sent so far, in order
    received,       \* the word list the collector holds: <<>> or <<solution>>
    results,        \* the result list
    solutionClosed, \* close(solutionChannel) has happened
    wsPc,           \* the caller: "search", "wait", "returned"
    collectorPc     \* the collector: "recv", "filter", "done"

wsVars == <<solver, dictWords, dictionary, sourceText, params, startLetters, toSend,
            emitted, received, results, solutionClosed, wsPc, collectorPc>>

\* ------------------------------------------------------ substitution solve

\* strings.ToUpper on a string.
ToUpperString(str) == [i \in 1..Len(str) |-> ToUpper(str[i])]

\* strings.Split(str, " "): the pieces between the spaces, empty ones included.
RECURSIVE SplitOnSpace(_)
SplitOnSpace(str) ==
    IF \A i \in 1..Len(str) : str[i] # SPACE THEN <<str>>
    ELSE LET k == CHOOSE i \in 1..Len(str) :
                     str[i] = SPACE /\ \A j \in 1..(i - 1) : str[j] # SPACE
         IN <<SubSeq(str, 1, k - 1)>> \o SplitOnSpace(SubSeq(str, k + 1, Len(str)))

\* SubstitutionPattern: each byte becomes the symbol of its first appearance.
RECURSIVE PatternFrom(_, _, _, _)
PatternFrom(input, i, textToPattern, maxByte) ==
    IF i > Len(input) THEN <<>>
    ELSE IF input[i] \in DOMAIN textToPattern
    THEN <<textToPattern[input[i]]>> \o PatternFrom(input, i + 1, textToPattern, maxByte)
    ELSE <<maxByte>> \o PatternFrom(input, i + 1, (input[i] :> maxByte) @@ textToPattern,
                                    (maxByte + 1) % 256)

\* A pattern that labels every position afresh, never looking a byte up.
SubstitutionPatternByPosition(input) == [i \in 1..Len(input) |-> (ASCII_A + i - 1) % 256]

SubstitutionPattern(input) == PatternFrom(input, 1, <<>>, ASCII_A)

\* A match on the length of the word in place of its pattern.
FindMatchesInTrieByLength(word, trie) ==
    LET HasLength(entry) == Len(entry) = Len(word)
    IN SelectSeq(FeedWordsToChannel(trie), HasLength)

\* FindMatchesInTrie: the dictionary's words with the pattern, in feed order.
FindMatchesInTrie(word, trie) ==
    LET pattern == SubstitutionPattern(word)
        HasPattern(entry) == SubstitutionPattern(entry) = pattern
    IN SelectSeq(FeedWordsToChannel(trie), HasPattern)

\* BuildSubstitutionData: one SubstitutionWordMatches per piece of the text.
BuildSubstitutionData(solveString, trie) ==
    LET words == SplitOnSpace(solveString)
    IN [i \in 1..Len(words) |->
          [Word |-> words[i], CryptPattern |-> SubstitutionPattern(words[i]),
           PatternMatches |-> FindMatchesInTrie(words[i], trie)]]

\* The orders sort.Slice may leave: any order ascending in the match count
\* (the sort is not stable).
SortedOrders(matchesData) ==
    LET n == Len(matchesData)
        perms == {f \in [1..n -> 1..n] : \A i, j \in 1..n : i # j => f[i] # f[j]}
    IN {[i \in 1..n |-> matchesData[f[i]]] : f \in
          {g \in perms : \A i \in 1..(n - 1) :
              ~(Len(matchesData[g[i + 1]].PatternMatches) < Len(matchesData[g[i]].PatternMatches))}}

\* The partition count of PartitionMapCollection.
PartitionCount(matchData, concurrency) ==
    IF Len(matchData[1].PatternMatches) < concurrency
    THEN Len(matchData[1].PatternMatches)
    ELSE concurrency

\* PartitionMatches panics on index%count when count is 0 and there is a match.
PartitionMatchesPanics(count, source) == count = 0 /\ Len(source.PatternMatches) > 0

\* A partitioning that leaves out the last match of the source.
PartitionMatchesDropsLast(count, source) ==
    [p \in 1..count |->
        [Word |-> source.Word, CryptPattern |-> source.CryptPattern,
         PatternMatches |->
            LET Mine(i) == (i - 1) % count = p - 1
                idx == SelectSeq([i \in 1..(Len(source.PatternMatches) - 1) |-> i], Mine)
            IN [k \in 1..Len(idx) |-> source.PatternMatches[idx[k]]]]]

\* PartitionMatches: match index i of the source goes to partition i mod count.
PartitionMatches(count, source) ==
    [p \in 1..count |->
        [Word |-> source.Word, CryptPattern |-> source.CryptPattern,
         PatternMatches |->
            LET Mine(i) == (i - 1) % count = p - 1
                idx == SelectSeq([i \in 1..Len(source.PatternMatches) |-> i], Mine)
            IN [k \in 1..Len(idx) |-> source.PatternMatches[idx[k]]]]]

Range0(seq) == {seq[i] : i \in 1..Len(seq)}

CopyByteMap(input) == [key \in DOMAIN input |-> input[key]]

\* An inner loop that keeps a candidate whatever the map already holds.
ApplyMatchIgnoresConflicts(word, matchBytes, i, copyMap) ==
    [allBytesWorked |-> TRUE,
     copyMap |-> [b \in DOMAIN copyMap \cup Range0(word) |->
                    IF b \in DOMAIN copyMap THEN copyMap[b]
                    ELSE matchBytes[CHOOSE k \in 1..Len(word) : word[k] = b]]]

\* The inner loop of CollectValidMaps over the bytes of the word from index i:
\* the extended map, and whether every byte worked.
RECURSIVE ApplyMatch(_, _, _, _)
ApplyMatch(word, matchBytes, i, copyMap) ==
    IF i > Len(word) THEN [allBytesWorked |-> TRUE, copyMap |-> copyMap]
    ELSE IF word[i] \notin DOMAIN copyMap
    THEN ApplyMatch(word, matchBytes, i + 1, (word[i] :> matchBytes[i]) @@ copyMap)
    ELSE IF copyMap[word[i]] # matchBytes[i]
    THEN [allBytesWorked |-> FALSE, copyMap |-> copyMap]
    ELSE ApplyMatch(word, matchBytes, i + 1, copyMap)

\* The sends of CollectValidMaps on the results channel, in order.
RECURSIVE CollectValidMaps(_, _)
RECURSIVE CollectOverMatches(_, _, _)
CollectValidMaps(matches, currentMap) ==
    IF Len(matches) = 0 THEN <<currentMap>>
    ELSE IF Len(matches[1].PatternMatches) = 0 THEN <<>>
    ELSE CollectOverMatches(1, matches, currentMap)

\* The loop over matches[0].PatternMatches from match k on.
CollectOverMatches(k, matches, currentMap) ==
    IF k > Len(matches[1].PatternMatches) THEN <<>>
    ELSE LET tried == ApplyMatch(matches[1].Word, matches[1].PatternMatches[k], 1,
                                 CopyByteMap(currentMap))
         IN (IF tried.allBytesWorked
             THEN CollectValidMaps(Tail(matches), tried.copyMap)
             ELSE <<>>)
            \o CollectOverMatches(k + 1, matches, currentMap)

CipherBytes == UpperLetters \cup {SPACE}

\* The ciphertexts tried: the solve treats every cipher letter alike, so one
\* text stands for those that differ from it by a renaming of the cipher
\* letters, the one whose letters first appear in alphabetical order.
CipherTexts ==
    LET IsLetter(b) == b # SPACE
    IN {text \in SeqsUpTo(CipherBytes, MaxCipherLen) :
           SubstitutionPattern(SelectSeq(text, IsLetter)) = SelectSeq(text, IsLetter)}

VARIABLES
    subDictWords,   \* the words the dictionary was read from
    subDictionary,  \* the trie
    cipherText,     \* the text to solve
    concurrency,    \* the concurrency asked for
    matchesData,    \* the sorted match lists
    workerToSend,   \* per worker: the maps it has yet to send
    workerDone,     \* per worker: waitGroup.Done() has happened
    sentMaps,       \* every map sent so far, in order
    subReceived,    \* the map the collector holds: <<>> or <<map>>
    solutions,      \* the result list
    resultsClosed,  \* close(resultsChannel) has happened
    subPc,          \* the caller: "build", "partition", "workers", "collector",
                    \* "returned", or the message of a panic
    subCollectorPc  \* the collector: "recv", "append", "done"

subVars == <<subDictWords, subDictionary, cipherText, concurrency, matchesData, workerToSend,
             workerDone, sentMaps, subReceived, solutions, resultsClosed, subPc, subCollectorPc>>

VARIABLES
    trieT,          \* the trie under a sequence of inserts, lookups and size calls
    inserted,       \* word -> value of its latest successful insert
    lastOp          \* the last call on the trie and what it returned

trieVars == <<trieT, inserted, lastOp>>

VARIABLES
    patInput,       \* the word whose pattern is taken
    patKey,         \* a one-to-one substitution of the bytes, applied to the word
    patOther,       \* a second word of the same length
    patterns,       \* the patterns of the word, of its image and of the second word
    patPc           \* where the exercise of SubstitutionPattern stands

patVars == <<patInput, patKey, patOther, patterns, patPc>>

VARIABLES
    scanInput,      \* the bytes of the reader
    bufSize,        \* the window length n
    trustSafeInput, \* whether the scanner skips the letters check
    innerPos,       \* how many bytes the inner byte scanner has consumed
    innerToken,     \* the inner scanner's Bytes(): one byte, or none after the end
    ngramBuffer,    \* the window
    foundError,     \* what Err() returns
    produced,       \* the windows the caller's loop has collected
    scanReturned,   \* what the last finished call of Scan returned
    scanPc          \* where the caller's loop over Scan stands

scanVars == <<scanInput, bufSize, trustSafeInput, innerPos, innerToken, ngramBuffer,
              foundError, produced, scanReturned, scanPc>>

VARIABLES
    hcParams,           \* the arguments of PerformHillclimbSolve
    justCipherText,     \* the letters of the ciphertext, upper-cased
    currentCandidate,   \* the candidate the climb stands on
    bestOfGeneration,   \* the best candidate of the trajectory
    candidates,         \* the archive of best candidates
    fitnessGenerations, \* the stale counter
    currentGeneration,  \* the generation counter
    reseeds,            \* how many times the climb has started over
    hcResults,          \* what PerformHillclimbSolve returns
    hcPc                \* where PerformHillclimbSolve stands

hcVars == <<hcParams, justCipherText, currentCandidate, bestOfGeneration, candidates,
            fitnessGenerations, currentGeneration, reseeds, hcResults, hcPc>>

VARIABLES
    lbDictionary,   \* the dictionary of a letter bank solve
    lbLetterSet,    \* the letters of its source text
    lbMaxNumWords,  \* its maxNumWords
    lbPending,      \* the letters the starting loop has still to take
    lbStack,        \* the calls of RecursiveFindLetterBanks in progress, the innermost last
    lbSent,         \* how many word lists have been sent
    lbPc            \* where the search stands

lbVars == <<lbDictionary, lbLetterSet, lbMaxNumWords, lbPending, lbStack, lbSent, lbPc>>

\* The variables of the solvers and exercises above.
earlyVars == <<wsVars, subVars, trieVars, patVars, scanVars, hcVars>>

VARIABLES
    freqLines,      \* the lines of a frequency file
    freqRead,       \* how many of them the scanner has yielded
    freqResult,     \* the frequency map being filled
    freqNgramSize,  \* the n-gram length
    freqPc          \* where PopulateFrequencyMapFromReader stands

freqVars == <<freqLines, freqRead, freqResult, freqNgramSize, freqPc>>

VARIABLES
    ngTrie,         \* the trie of n-gram counts
    totalNGrams,    \* the number of n-grams counted
    ngPc            \* where readNgramsIntoTrie stands

ngVars == <<ngTrie, totalNGrams, ngPc>>

VARIABLES
    inputText,      \* the text given to PerformCaesarShifts
    shift,          \* the shift of the loop
    caesarResults,  \* the results so far
    caesarPc        \* where PerformCaesarShifts stands

caesarVars == <<inputText, shift, caesarResults, caesarPc>>

VARIABLES
    incrementers,   \* the slice incrementers of the IncrementerIncrementer
    incCalls,       \* the calls of Increment since Reset
    seen,           \* the value tuples noted after those calls
    maxedState      \* the values when IsMaxed first held

incVars == <<incrementers, incCalls, seen, maxedState>>

VARIABLES
    pmCount,        \* the count given to PartitionMatches
    pmSource,       \* the source given to it
    partitions,     \* what it returned
    pmPc            \* where the caller stands

pmVars == <<pmCount, pmSource, partitions, pmPc>>

VARIABLES
    workerMatches,  \* the matches given to each partition worker
    mapHeap,        \* the maps made so far
    callStack,      \* the calls of CollectValidMaps of each worker
    mapsSent        \* the maps sent on the results channel

mapVars == <<workerMatches, mapHeap, callStack, mapsSent>>

lateVars == <<lbVars, freqVars, ngVars, caesarVars, incVars, pmVars, mapVars>>

lbOthers == <<earlyVars, freqVars, ngVars, caesarVars, incVars, pmVars, mapVars>>
freqOthers == <<earlyVars, lbVars, ngVars, caesarVars, incVars, pmVars, mapVars>>
ngOthers == <<earlyVars, lbVars, freqVars, caesarVars, incVars, pmVars, mapVars>>
caesarOthers == <<earlyVars, lbVars, freqVars, ngVars, incVars, pmVars, mapVars>>
incOthers == <<earlyVars, lbVars, freqVars, ngVars, caesarVars, pmVars, mapVars>>
pmOthers == <<earlyVars, lbVars, freqVars, ngVars, caesarVars, incVars, mapVars>>
mapOthers == <<earlyVars, lbVars, freqVars, ngVars, caesarVars, incVars, pmVars>>

restVars == <<trieVars, patVars, scanVars, hcVars, lateVars>>

vars == <<wsVars, subVars, restVars>>

NoOp == [op |-> "none", input |-> <<>>, value |-> nilValue, found |-> FALSE, err |-> FALSE,
         panic |-> FALSE, size |-> 0, before |-> newTrie]

\* The trie exercise at rest.
TrieIdle ==
    /\ trieT = newTrie
    /\ inserted = <<>>
    /\ lastOp = NoOp

\* The pattern exercise at rest.
PatIdle ==
    /\ patInput = <<>>
    /\ patKey = <<>>
    /\ patOther = <<>>
    /\ patterns = [input |-> <<>>, image |-> <<>>, other |-> <<>>]
    /\ patPc = "idle"

\* The absent error.
noError == "nil"

\* The n-gram scanner at rest.
ScanIdle ==
    /\ scanInput = <<>>
    /\ bufSize = 1
    /\ trustSafeInput = FALSE
    /\ innerPos = 0
    /\ innerToken = <<>>
    /\ ngramBuffer = <<>>
    /\ foundError = noError
    /\ produced = <<>>
    /\ scanReturned = "none"
    /\ scanPc = "idle"

\* A candidate that stands for none.
noCandidate == [Fitness |-> 0, Key |-> <<>>]

\* The hill climb at rest.
HCIdle ==
    /\ hcParams = [cipherText |-> <<>>, frequencyMap |-> <<>>, generations |-> 0, mutations |-> 0,
                   regenAfter |-> 0, candidateCount |-> 0, localLookaround |-> 0, ngramSize |-> 1]
    /\ justCipherText = <<>>
    /\ currentCandidate = noCandidate
    /\ bestOfGeneration = noCandidate
    /\ candidates = <<>>
    /\ fitnessGenerations = 0
    /\ currentGeneration = 0
    /\ reseeds = 0
    /\ hcResults = <<>>
    /\ hcPc = "idle"

\* The stepwise letter bank search at rest.
LBIdle ==
    /\ lbDictionary = newTrie
    /\ lbLetterSet = {}
    /\ lbMaxNumWords = 0
    /\ lbPending = {}
    /\ lbStack = <<>>
    /\ lbSent = 0
    /\ lbPc = "idle"

\* The reading of a frequency file at rest.
FreqIdle ==
    /\ freqLines = <<>>
    /\ freqRead = 0
    /\ freqResult = <<>>
    /\ freqNgramSize = 0
    /\ freqPc = "idle"

\* The counting of n-grams at rest.
NgIdle ==
    /\ ngTrie = <<>>
    /\ totalNGrams = 0
    /\ ngPc = "idle"

\* The Caesar shifts at rest.
CaesarIdle ==
    /\ inputText = <<>>
    /\ shift = 0
    /\ caesarResults = <<>>
    /\ caesarPc = "idle"

\* The incrementers at rest.
IncIdle ==
    /\ incrementers = <<>>
    /\ incCalls = 0
    /\ seen = {}
    /\ maxedState = <<>>

\* The partitioning at rest.
PMIdle ==
    /\ pmCount = 0
    /\ pmSource = <<>>
    /\ partitions = <<>>
    /\ pmPc = "idle"

\* The map objects at rest.
MapIdle ==
    /\ workerMatches = <<>>
    /\ mapHeap = <<>>
    /\ callStack = <<>>
    /\ mapsSent = <<>>

LateIdle == LBIdle /\ FreqIdle /\ NgIdle /\ CaesarIdle /\ IncIdle /\ PMIdle /\ MapIdle

RestIdle == TrieIdle /\ PatIdle /\ ScanIdle /\ HCIdle /\ LateIdle

\* The substitution solve at rest, while a word search runs.
SubIdle ==
    /\ subDictWords = {}
    /\ subDictionary = newTrie
    /\ cipherText = <<>>
    /\ concurrency = 1
    /\ matchesData = <<>>
    /\ workerToSend = <<>>
    /\ workerDone = <<>>
    /\ sentMaps = <<>>
    /\ subReceived = <<>>
    /\ solutions = <<>>
    /\ resultsClosed = FALSE
    /\ subPc = "idle"
    /\ subCollectorPc = "idle"

\* The length and count parameters: each is the least value or the greatest,
\* and each range has its lower end at most its upper.
ParamValues == {1, MaxTextLen}

Params ==
    {p \in [minWordLen : ParamValues, maxWordLen : ParamValues,
            minNumWords : ParamValues, maxNumWords : ParamValues] :
        p.minWordLen <= p.maxWordLen /\ p.minNumWords <= p.maxNumWords}

WSInit ==
    /\ SubIdle
    /\ RestIdle
    /\ solver \in {"transposal", "letterbank"}
    /\ dictWords \in Dictionaries
    /\ dictionary = ReadDictionaryToTrie(dictWords)
    /\ sourceText \in Texts
    /\ params \in Params
    /\ startLetters = IF solver = "transposal"
                      THEN DOMAIN CreateLetterCountsMap(sourceText)
                      ELSE CreateLetterSet(sourceText)
    /\ toSend = <<>>
    /\ emitted = <<>>
    /\ received = <<>>
    /\ results = <<>>
    /\ solutionClosed = FALSE
    /\ wsPc = "search"
    /\ collectorPc = "recv"

\* The sends of the branch the start loop opens for one letter.
StartBranch(letter) ==
    LET childIndex == letter - ASCII_A
    IN IF children(dictionary, <<>>, childIndex) = nil THEN <<>>
       ELSE IF solver = "transposal"
       THEN RecursiveFindTransposals(dictionary, children(dictionary, <<>>, childIndex),
                DecrementLetterCounts(letter, CreateLetterCountsMap(sourceText)),
                <<>>, <<letter>>, params.maxNumWords)
       ELSE RecursiveFindLetterBanks(dictionary, children(dictionary, <<>>, childIndex),
                CreateLetterSet(sourceText), {letter},
                <<>>, <<letter>>, params.maxNumWords)

\* One iteration of the start loop: the map's iteration order is any order.
WSBranch ==
    /\ wsPc = "search"
    /\ toSend = <<>>
    /\ \E letter \in startLetters :
          /\ startLetters' = startLetters \ {letter}
          /\ toSend' = StartBranch(letter)
    /\ UNCHANGED <<restVars, subVars, solver, dictWords, dictionary, sourceText, params, emitted, received,
                   results, solutionClosed, wsPc, collectorPc>>

\* solutions <- finalWordList, met by the collector's receive.
WSSend ==
    /\ wsPc = "search"
    /\ toSend # <<>>
    /\ collectorPc = "recv"
    /\ received' = <<Head(toSend)>>
    /\ emitted' = Append(emitted, Head(toSend))
    /\ toSend' = Tail(toSend)
    /\ collectorPc' = "filter"
    /\ UNCHANGED <<restVars, subVars, solver, dictWords, dictionary, sourceText, params, startLetters,
                   results, solutionClosed, wsPc>>

\* The body of the collector's loop.
WSFilter ==
    /\ collectorPc = "filter"
    /\ results' = IF SolutionIsValid(received[1], params.minWordLen, params.maxWordLen,
                                     params.minNumWords, params.maxNumWords)
                  THEN Append(results, received[1])
                  ELSE results
    /\ received' = <<>>
    /\ collectorPc' = "recv"
    /\ UNCHANGED <<restVars, subVars, solver, dictWords, dictionary, sourceText, params, startLetters, toSend,
                   emitted, solutionClosed, wsPc>>

\* close(solutionChannel), after the start loop.
WSClose ==
    /\ wsPc = "search"
    /\ toSend = <<>>
    /\ startLetters = {}
    /\ solutionClosed' = TRUE
    /\ wsPc' = "wait"
    /\ UNCHANGED <<restVars, subVars, solver, dictWords, dictionary, sourceText, params, startLetters, toSend,
                   emitted, received, results, collectorPc>>

\* The collector's range loop ends on the closed channel: close(done).
WSCollectorDone ==
    /\ collectorPc = "recv"
    /\ solutionClosed
    /\ collectorPc' = "done"
    /\ UNCHANGED <<restVars, subVars, solver, dictWords, dictionary, sourceText, params, startLetters, toSend,
                   emitted, received, results, solutionClosed, wsPc>>

\* <-done; return results.
WSReturn ==
    /\ wsPc = "wait"
    /\ collectorPc = "done"
    /\ wsPc' = "returned"
    /\ UNCHANGED <<restVars, subVars, solver, dictWords, dictionary, sourceText, params, startLetters, toSend,
                   emitted, received, results, solutionClosed, collectorPc>>

WSNext == WSBranch \/ WSSend \/ WSFilter \/ WSClose \/ WSCollectorDone \/ WSReturn

SpecWordSearch == WSInit /\ [][WSNext]_vars

\* ------------------------------------------------ substitution solve: steps

UNDERSCORE == 95

IsUppercaseAscii(b) == b \in UpperLetters

DecodeString(text, cipherToPlain) ==
    [i \in 1..Len(text) |->
        IF IsUppercaseAscii(text[i])
        THEN IF text[i] \in DOMAIN cipherToPlain THEN cipherToPlain[text[i]] ELSE UNDERSCORE
        ELSE text[i]]

\* The word search at rest, while a substitution solve runs.
WSIdle ==
    /\ solver = "idle"
    /\ dictWords = {}
    /\ dictionary = newTrie
    /\ sourceText = <<>>
    /\ params = [minWordLen |-> 1, maxWordLen |-> 1, minNumWords |-> 1, maxNumWords |-> 1]
    /\ startLetters = {}
    /\ toSend = <<>>
    /\ emitted = <<>>
    /\ received = <<>>
    /\ results = <<>>
    /\ solutionClosed = FALSE
    /\ wsPc = "idle"
    /\ collectorPc = "idle"

SubInit ==
    /\ WSIdle
    /\ RestIdle
    /\ subDictWords \in Dictionaries
    /\ subDictionary = ReadDictionaryToTrie(subDictWords)
    /\ cipherText \in CipherTexts
    /\ concurrency \in 0..MaxConcurrency
    /\ matchesData = <<>>
    /\ workerToSend = <<>>
    /\ workerDone = <<>>
    /\ sentMaps = <<>>
    /\ subReceived = <<>>
    /\ solutions = <<>>
    /\ resultsClosed = FALSE
    /\ subPc = "build"
    /\ subCollectorPc = "recv"

\* PerformSubstitutionSolve up to the start of the collector: the match lists
\* are built and sorted.
SubBuild ==
    /\ subPc = "build"
    /\ matchesData' \in SortedOrders(BuildSubstitutionData(ToUpperString(cipherText), subDictionary))
    /\ subPc' = "partition"
    /\ UNCHANGED <<restVars, wsVars, subDictWords, subDictionary, cipherText, concurrency, workerToSend,
                   workerDone, sentMaps, subReceived, solutions, resultsClosed, subCollectorPc>>

\* PartitionMapCollection up to waitGroup.Wait(): one worker per partition.
SubPartition ==
    /\ subPc = "partition"
    /\ LET partitionCount == PartitionCount(matchesData, concurrency)
       IN IF PartitionMatchesPanics(partitionCount, matchesData[1])
          THEN /\ subPc' = "panic: integer divide by zero"
               /\ UNCHANGED <<workerToSend, workerDone>>
          ELSE LET heads == PartitionMatches(partitionCount, matchesData[1])
               IN /\ workerToSend' =
                        [w \in 1..Len(heads) |->
                            CollectValidMaps(<<heads[w]>> \o Tail(matchesData), <<>>)]
                  /\ workerDone' = [w \in 1..Len(heads) |-> FALSE]
                  /\ subPc' = "workers"
    /\ UNCHANGED <<restVars, wsVars, subDictWords, subDictionary, cipherText, concurrency, matchesData,
                   sentMaps, subReceived, solutions, resultsClosed, subCollectorPc>>

\* resultsChannel <- currentMap in worker w, met by the collector's receive;
\* a send on the closed channel panics.
WorkerSend(w) ==
    /\ subPc \in {"workers", "collector", "returned"}
    /\ workerToSend[w] # <<>>
    /\ IF resultsClosed
       THEN /\ subPc' = "panic: send on closed channel"
            /\ UNCHANGED <<workerToSend, sentMaps, subReceived, subCollectorPc>>
       ELSE /\ subCollectorPc = "recv"
            /\ subReceived' = <<Head(workerToSend[w])>>
            /\ sentMaps' = Append(sentMaps, Head(workerToSend[w]))
            /\ workerToSend' = [workerToSend EXCEPT ![w] = Tail(@)]
            /\ subCollectorPc' = "append"
            /\ UNCHANGED subPc
    /\ UNCHANGED <<restVars, wsVars, subDictWords, subDictionary, cipherText, concurrency, matchesData,
                   workerDone, solutions, resultsClosed>>

\* CollectValidMaps has returned in worker w: waitGroup.Done().
WorkerDone(w) ==
    /\ subPc \in {"workers", "collector", "returned"}
    /\ workerToSend[w] = <<>>
    /\ ~workerDone[w]
    /\ workerDone' = [workerDone EXCEPT ![w] = TRUE]
    /\ UNCHANGED <<restVars, wsVars, subDictWords, subDictionary, cipherText, concurrency, matchesData,
                   workerToSend, sentMaps, subReceived, solutions, resultsClosed, subPc,
                   subCollectorPc>>

\* A wait that returns at once.
WaitGroupWaitNoWait == TRUE

\* waitGroup.Wait() of PartitionMapCollection returns: every worker is done.
WaitGroupWait == \A w \in 1..Len(workerDone) : workerDone[w]

\* PartitionMapCollection returns and close(resultsChannel) follows.
SubClose ==
    /\ subPc = "workers"
    /\ WaitGroupWait
    /\ resultsClosed' = TRUE
    /\ subPc' = "collector"
    /\ UNCHANGED <<restVars, wsVars, subDictWords, subDictionary, cipherText, concurrency, matchesData,
                   workerToSend, workerDone, sentMaps, subReceived, solutions, subCollectorPc>>

\* The body of the collector's loop.
SubCollectorAppend ==
    /\ subCollectorPc = "append"
    /\ solutions' = Append(solutions,
                           [Key |-> subReceived[1],
                            DecipheredText |-> DecodeString(ToUpperString(cipherText), subReceived[1]),
                            CipherText |-> ToUpperString(cipherText)])
    /\ subReceived' = <<>>
    /\ subCollectorPc' = "recv"
    /\ UNCHANGED <<restVars, wsVars, subDictWords, subDictionary, cipherText, concurrency, matchesData,
                   workerToSend, workerDone, sentMaps, resultsClosed, subPc>>

\* The collector's range loop ends on the closed channel: wg.Done().
SubCollectorDone ==
    /\ subCollectorPc = "recv"
    /\ resultsClosed
    /\ subCollectorPc' = "done"
    /\ UNCHANGED <<restVars, wsVars, subDictWords, subDictionary, cipherText, concurrency, matchesData,
                   workerToSend, workerDone, sentMaps, subReceived, solutions, resultsClosed,
                   subPc>>

\* wg.Wait() of PerformSubstitutionSolve returns: the collector is done.
CollectorWait == subCollectorPc = "done"

\* return solutions.
SubReturn ==
    /\ subPc = "collector"
    /\ CollectorWait
    /\ subPc' = "returned"
    /\ UNCHANGED <<restVars, wsVars, subDictWords, subDictionary, cipherText, concurrency, matchesData,
                   workerToSend, workerDone, sentMaps, subReceived, solutions, resultsClosed,
                   subCollectorPc>>

SubNext ==
    \/ SubBuild
    \/ SubPartition
    \/ \E w \in 1..Len(workerToSend) : WorkerSend(w)
    \/ \E w \in 1..Len(workerToSend) : WorkerDone(w)
    \/ SubClose
    \/ SubCollectorAppend
    \/ SubCollectorDone
    \/ SubReturn

SpecSubstitution == SubInit /\ [][SubNext]_vars

\* ------------------------------------------------- word search: properties

Range(seq) == {seq[i] : i \in 1..Len(seq)}

RECURSIVE ConcatWords(_)
ConcatWords(list) == IF list = <<>> THEN <<>> ELSE Head(list) \o ConcatWords(Tail(list))

CountOf(seq, b) == Cardinality({i \in 1..Len(seq) : seq[i] = b})

\* How often a letter occurs in the input text, in either case.
InputLetterCount(l) == CountOf(sourceText, l) + CountOf(sourceText, l + (ASCII_a - ASCII_A))

InputLetterSet == {l \in UpperLetters : InputLetterCount(l) > 0}

SameMultisetAsInput(list) ==
    /\ Range(ConcatWords(list)) \subseteq UpperLetters
    /\ \A l \in UpperLetters : CountOf(ConcatWords(list), l) = InputLetterCount(l)

SameLetterSetAsInput(list) == Range(ConcatWords(list)) = InputLetterSet

WithinBounds(list) ==
    /\ Len(list) >= params.minNumWords
    /\ Len(list) <= params.maxNumWords
    /\ \A i \in 1..Len(list) :
          Len(list[i]) >= params.minWordLen /\ Len(list[i]) <= params.maxWordLen

\* C1: every word list PerformTransposalSolve returns is made of dictionary
\* words whose letters, as a multiset, are exactly the letters of the input
\* (non-letters ignored, case folded).
C1_TransposalSound ==
    solver = "transposal" =>
        \A i \in 1..Len(results) :
            /\ Range(results[i]) \subseteq dictWords
            /\ SameMultisetAsInput(results[i])

\* A returned transposal of two words for an input with a lower-case letter.
C1_Witness ==
    /\ solver = "transposal"
    /\ wsPc = "returned"
    /\ \E i \in 1..Len(results) : Len(results[i]) = 2
    /\ \E i \in 1..Len(sourceText) : sourceText[i] \in LowerLetters

\* The ordered lists of dictionary words that are transposals of the input
\* within the bounds.
ExpectedTransposals ==
    {list \in SeqsUpTo(dictWords, MaxTextLen) \ {<<>>} :
        SameMultisetAsInput(list) /\ WithinBounds(list)}

\* C2: PerformTransposalSolve returns every ordered list of dictionary words,
\* of one word or of several, whose letters are the input's and which lies
\* within the bounds.
C2_TransposalComplete ==
    (solver = "transposal" /\ wsPc = "returned") =>
        ExpectedTransposals \subseteq Range(results)

\* C3: every word list PerformLetterBankSolve returns uses exactly the set of
\* distinct letters of the input.
C3_LetterBankSound ==
    solver = "letterbank" =>
        \A i \in 1..Len(results) : SameLetterSetAsInput(results[i])

\* A returned letter bank, with a dictionary word over a proper subset of the
\* input's letters left out.
C3_Witness ==
    /\ solver = "letterbank"
    /\ wsPc = "returned"
    /\ results # <<>>
    /\ \E w \in dictWords : /\ Range(w) # InputLetterSet
                             /\ Range(w) \subseteq InputLetterSet
                             /\ WithinBounds(<<w>>)
                             /\ <<w>> \notin Range(results)

\* The ordered lists of dictionary words that are letter banks of the input
\* within the bounds.
ExpectedLetterBanks ==
    {list \in SeqsUpTo(dictWords, params.maxNumWords) \ {<<>>} :
        SameLetterSetAsInput(list) /\ WithinBounds(list)}

\* C4: PerformLetterBankSolve returns every dictionary word, and every ordered
\* word list within the bounds, whose set of distinct letters is the input's.
C4_LetterBankComplete ==
    (solver = "letterbank" /\ wsPc = "returned") =>
        ExpectedLetterBanks \subseteq Range(results)

\* C5: every word list either solver returns has its word count and every
\* word's length within the bounds.
C5_ResultsWithinBounds ==
    \A i \in 1..Len(results) : WithinBounds(results[i])

\* A word list was sent and filtered out while another was kept.
C5_Witness ==
    /\ wsPc = "returned"
    /\ results # <<>>
    /\ \E i \in 1..Len(emitted) : emitted[i] \notin Range(results)

\* ------------------------------------------- substitution solve: properties

\* The words of the ciphertext as the solve sees them.
CipherWords == SplitOnSpace(ToUpperString(cipherText))

\* The dictionary words with the pattern of a ciphertext word.
Candidates(word) ==
    {entry \in subDictWords : SubstitutionPattern(entry) = SubstitutionPattern(word)}

\* The ciphertext letters of the words.
CipherLetters(words) == UNION {Range(words[k]) : k \in 1..Len(words)}

\* A word decoded position by position with a byte map.
DecodeWord(word, byteMap) == [i \in 1..Len(word) |-> byteMap[word[i]]]

\* The choices of one candidate per ciphertext word.
Combinations(words) ==
    {c \in [1..Len(words) -> subDictWords] :
        \A k \in 1..Len(words) : c[k] \in Candidates(words[k])}

\* A choice is consistent when no ciphertext letter gets two plaintext letters.
Consistent(words, c) ==
    \A k1, k2 \in 1..Len(words) :
        \A i \in 1..Len(words[k1]) : \A j \in 1..Len(words[k2]) :
            words[k1][i] = words[k2][j] => c[k1][i] = c[k2][j]

ConsistentCombinations(words) == {c \in Combinations(words) : Consistent(words, c)}

\* The byte map of a consistent choice.
MapOf(words, c) ==
    [b \in CipherLetters(words) |->
        LET k == CHOOSE k \in 1..Len(words) : b \in Range(words[k])
            i == CHOOSE i \in 1..Len(words[k]) : words[k][i] = b
        IN c[k][i]]

ConsistentMaps(words) == {MapOf(words, c) : c \in ConsistentCombinations(words)}

SomeWordHasNoCandidate(words) == \E k \in 1..Len(words) : Candidates(words[k]) = {}

Keys == [i \in 1..Len(solutions) |-> solutions[i].Key]

Panicked == subPc \in {"panic: integer divide by zero", "panic: send on closed channel"}

\* C6: every byte map CollectValidMaps sends gives each ciphertext letter one
\* plaintext letter and decodes every ciphertext word, position by position,
\* to one of the dictionary words with that word's pattern; a candidate that
\* disagrees with a mapping already made contributes no map, so no two maps
\* sent are the same.
C6_EmittedMapsConsistent ==
    sentMaps # <<>> =>
        LET words == CipherWords
            letters == CipherLetters(words)
            candidatesOf == [k \in 1..Len(words) |-> Candidates(words[k])]
        IN /\ \A n \in 1..Len(sentMaps) :
                 /\ DOMAIN sentMaps[n] = letters
                 /\ \A k \in 1..Len(words) :
                       DecodeWord(words[k], sentMaps[n]) \in candidatesOf[k]
           /\ \A n1, n2 \in 1..Len(sentMaps) : n1 # n2 => sentMaps[n1] # sentMaps[n2]

\* A map was sent although some choice of candidates was in conflict.
C6_Witness ==
    /\ subPc = "returned"
    /\ sentMaps # <<>>
    /\ \E c \in Combinations(CipherWords) : ~Consistent(CipherWords, c)

\* C7: for a concurrency of at least 1, whatever the scheduling, the maps
\* PerformSubstitutionSolve returns are one per consistent choice of a
\* candidate per word, none missing and none twice: the maps of a single
\* CollectValidMaps over the unpartitioned match lists.
C7_SolutionsAreConsistentChoices ==
    (concurrency >= 1 /\ subPc = "returned") =>
        LET expected == ConsistentMaps(CipherWords)
            sequential == CollectValidMaps(matchesData, <<>>)
            keys == Keys
        IN /\ Range(keys) = expected
           /\ Len(keys) = Cardinality(expected)
           /\ Range(keys) = Range(sequential)
           /\ Len(keys) = Len(sequential)

\* Two workers each returned a map, and some choice of candidates was in
\* conflict.
C7_Witness ==
    /\ concurrency >= 2
    /\ subPc = "returned"
    /\ Len(workerDone) = 2
    /\ Len(solutions) >= 2
    /\ \E c \in Combinations(CipherWords) : ~Consistent(CipherWords, c)

\* C8: the results channel is closed only once every worker has finished, no
\* worker sends on the closed channel, and the solve returns only when the
\* collector has taken every map sent: the returned list holds the sent maps
\* and no worker is left with a map to send.
C8_CloseAfterWorkersReturnAfterCollector ==
    /\ resultsClosed =>
          \A w \in 1..Len(workerDone) : workerDone[w] /\ workerToSend[w] = <<>>
    /\ subPc # "panic: send on closed channel"
    /\ subPc = "returned" =>
          /\ Keys = sentMaps
          /\ subReceived = <<>>
          /\ subCollectorPc = "done"
          /\ \A w \in 1..Len(workerToSend) : workerToSend[w] = <<>>

\* The solve returned what two workers sent.
C8_Witness ==
    /\ subPc = "returned"
    /\ Len(workerDone) = 2
    /\ Len(sentMaps) >= 2
    /\ Keys = sentMaps

\* C9: a concurrency of zero, or one above the number of candidates of the
\* first word, gives as many workers as that word has candidates, and the
\* solve completes without a panic.
C9_PartitionsClamped ==
    (subPc \notin {"build", "partition"}
        /\ (concurrency = 0 \/ concurrency > Len(matchesData[1].PatternMatches))) =>
        /\ ~Panicked
        /\ Len(workerToSend) = Len(matchesData[1].PatternMatches)

\* The steps of the solve once the match lists are built.
StepAfterBuild ==
    \/ SubPartition
    \/ \E w \in 1..Len(workerToSend) : WorkerSend(w)
    \/ \E w \in 1..Len(workerToSend) : WorkerDone(w)
    \/ SubClose
    \/ SubCollectorAppend
    \/ SubCollectorDone
    \/ SubReturn

\* C10: when a ciphertext word has no dictionary word of its pattern and the
\* concurrency is at least 1, the solve sends no map, does not panic, has a
\* step to take for as long as it has not returned, and returns the empty
\* list.
C10_NoCandidateGivesEmptyResult ==
    (concurrency >= 1 /\ SomeWordHasNoCandidate(CipherWords)) =>
        /\ ~Panicked
        /\ sentMaps = <<>>
        /\ solutions = <<>>
        /\ subPc \notin {"build", "returned"} => ENABLED StepAfterBuild

\* The solve returned for a text of two words, one with candidates and one
\* without.
C10_Witness ==
    /\ concurrency >= 1
    /\ subPc = "returned"
    /\ SomeWordHasNoCandidate(CipherWords)
    /\ \E k \in 1..Len(CipherWords) : Candidates(CipherWords[k]) # {}

\* ------------------------------------------------------ trie: the exercise

\* The payload values of the inserts.
TrieValues == {"v1", "v2"}

\* The strings given to the trie: the words it can hold, the empty string,
\* and strings with a lower-case letter or a space in them.
TrieInputs ==
    DictWords \cup {<<>>, <<ASCII_a>>, <<SPACE>>, <<ASCII_A, ASCII_a>>, <<ASCII_A, SPACE, ASCII_A>>}

\* trie.addValueForString(input, value); the trie is kept to MaxTrieNodes
\* nodes.
TrieInsert ==
    /\ lastOp.op = "none"
    /\ \E input \in TrieInputs, value \in TrieValues :
          LET r == addValueForString(trieT, input, value)
          IN /\ Cardinality(DOMAIN r.trie) - 1 <= MaxTrieNodes
             /\ trieT' = r.trie
             /\ inserted' = IF r.err THEN inserted ELSE (input :> value) @@ inserted
             /\ lastOp' = [NoOp EXCEPT !.op = "insert", !.input = input, !.value = value,
                                       !.err = r.err, !.before = trieT]
    /\ UNCHANGED <<wsVars, subVars, lateVars, patVars, scanVars, hcVars>>

\* trie.getValueForString(input).
TrieLookup ==
    /\ lastOp.op = "none"
    /\ \E input \in TrieInputs :
          LET r == getValueForString(trieT, input)
          IN lastOp' = [NoOp EXCEPT !.op = "lookup", !.input = input, !.value = r.value,
                                    !.found = r.found, !.panic = r.panic, !.before = trieT]
    /\ UNCHANGED <<wsVars, subVars, lateVars, patVars, scanVars, hcVars, trieT, inserted>>

\* trie.getSize().
TrieGetSize ==
    /\ lastOp.op = "none"
    /\ lastOp' = [NoOp EXCEPT !.op = "size", !.size = getSize(trieT), !.before = trieT]
    /\ UNCHANGED <<wsVars, subVars, lateVars, patVars, scanVars, hcVars, trieT, inserted>>

\* The caller has looked at what the call returned and goes on to its next
\* call; after a panic there is no next call.
TrieNextCall ==
    /\ lastOp.op # "none"
    /\ ~lastOp.panic
    /\ lastOp' = NoOp
    /\ UNCHANGED <<wsVars, subVars, lateVars, patVars, scanVars, hcVars, trieT, inserted>>

TrieInit ==
    /\ WSIdle
    /\ SubIdle
    /\ LateIdle
    /\ TrieIdle
    /\ PatIdle
    /\ ScanIdle
    /\ HCIdle

TrieNext == TrieInsert \/ TrieLookup \/ TrieGetSize \/ TrieNextCall

SpecTrie == TrieInit /\ [][TrieNext]_vars

\* ------------------------------------------------------- trie: properties

\* C11: getValueForString returns the value of the latest insert of a word
\* that was inserted, with true, and returns (nil, false) for every string
\* that was never inserted, a proper prefix of a word and the empty string
\* among them.
C11_LookupReturnsLatestInsert ==
    lastOp.op = "lookup" =>
        IF lastOp.input \in DOMAIN inserted
        THEN ~lastOp.panic /\ lastOp.found /\ lastOp.value = inserted[lastOp.input]
        ELSE ~lastOp.panic /\ ~lastOp.found /\ lastOp.value = nilValue

\* C12: addValueForString returns an error for every input that is not a
\* non-empty string of upper-case letters, and then leaves the trie as it
\* was: the same nodes, flags and values, the same lookups and the same size.
C12_InvalidInsertRejected ==
    (lastOp.op = "insert" /\ ~(lastOp.input # <<>> /\ Range0(lastOp.input) \subseteq UpperLetters)) =>
        /\ lastOp.err
        /\ trieT = lastOp.before
        /\ getSize(trieT) = getSize(lastOp.before)
        /\ \A w \in DictWords : getValueForString(trieT, w) = getValueForString(lastOp.before, w)

\* A trie that holds a word rejected an insert of a text with a lower-case
\* letter, and stayed as it was.
C12_Witness ==
    /\ lastOp.op = "insert"
    /\ lastOp.err
    /\ ASCII_a \in Range0(lastOp.input)
    /\ DOMAIN inserted # {}
    /\ trieT = lastOp.before

\* C13: getSize is the number of distinct words inserted: a repeated insert
\* adds nothing, a word and its prefixes count once each, and a prefix node
\* that was never inserted does not count.
C13_SizeCountsDistinctWords ==
    /\ getSize(trieT) = Cardinality(DOMAIN inserted)
    /\ lastOp.op = "size" => lastOp.size = Cardinality(DOMAIN inserted)

\* getSize returned 1 for a trie whose one word has a prefix node that is no
\* word.
C13_Witness ==
    /\ lastOp.op = "size"
    /\ lastOp.size = 1
    /\ \E w \in DOMAIN inserted : Len(w) = 2 /\ Prefix(w, 1) \notin DOMAIN inserted

\* ------------------------------------------- SubstitutionPattern: exercise

\* The words whose pattern is taken: any bytes, upper-case or not.
PatternWords == SeqsUpTo(TextBytes, MaxPatternLen)

\* The permutations of a set of bytes: the one-to-one substitutions.
OneToOneSubstitutions(S) == {f \in [S -> S] : \A a, b \in S : f[a] = f[b] => a = b}

\* A word under a substitution of its bytes.
Substitute(key, word) == [i \in 1..Len(word) |-> key[word[i]]]

PatInit ==
    /\ WSIdle
    /\ SubIdle
    /\ LateIdle
    /\ TrieIdle
    /\ ScanIdle
    /\ HCIdle
    /\ patInput \in PatternWords
    /\ patKey = <<>>
    /\ patOther = <<>>
    /\ patterns = [input |-> <<>>, image |-> <<>>, other |-> <<>>]
    /\ patPc = "start"

\* SubstitutionPattern(input).
PatternOfInput ==
    /\ patPc = "start"
    /\ patterns' = [patterns EXCEPT !.input = SubstitutionPattern(patInput)]
    /\ patPc' = "patterned"
    /\ UNCHANGED <<wsVars, subVars, lateVars, trieVars, scanVars, hcVars, patInput, patKey, patOther>>

\* SubstitutionPattern of the image of the input under a one-to-one
\* substitution.
PatternOfImage ==
    /\ patPc = "patterned"
    /\ \E key \in OneToOneSubstitutions(TextBytes) :
          /\ patKey' = key
          /\ patterns' = [patterns EXCEPT !.image = SubstitutionPattern(Substitute(key, patInput))]
    /\ patPc' = "imaged"
    /\ UNCHANGED <<wsVars, subVars, lateVars, trieVars, scanVars, hcVars, patInput, patOther>>

\* SubstitutionPattern of a second word as long as the input.
PatternOfOther ==
    /\ patPc = "patterned"
    /\ \E other \in PatternWords :
          /\ Len(other) = Len(patInput)
          /\ patOther' = other
          /\ patterns' = [patterns EXCEPT !.other = SubstitutionPattern(other)]
    /\ patPc' = "compared"
    /\ UNCHANGED <<wsVars, subVars, lateVars, trieVars, scanVars, hcVars, patInput, patKey>>

PatNext == PatternOfInput \/ PatternOfImage \/ PatternOfOther

SpecPattern == PatInit /\ [][PatNext]_vars

\* ------------------------------------------ SubstitutionPattern: properties

\* The index of the first appearance of a byte in a word.
FirstIndex(word, b) == CHOOSE i \in 1..Len(word) : word[i] = b /\ \A j \in 1..(i - 1) : word[j] # b

\* The rank of a position's byte by first appearance: 1 for the first byte
\* of the word, 2 for the next new byte, and so on.
AppearanceOrder(word, i) == Cardinality({word[j] : j \in 1..FirstIndex(word, word[i])})

\* Whether a word is the image of another under a one-to-one substitution of
\* the letters: the substitution, if there is one, sends each letter of the
\* first word to what stands at its first appearance in the second.
IsImageUnderOneToOne(word, image) ==
    /\ Len(word) = Len(image)
    /\ LET f == [b \in Range0(word) |-> image[FirstIndex(word, b)]]
       IN /\ \A a, b \in Range0(word) : f[a] = f[b] => a = b
          /\ \A i \in 1..Len(word) : image[i] = f[word[i]]

\* C14: SubstitutionPattern labels each position with the k-th symbol of A,
\* B, C, ... for k the order of first appearance of the position's letter;
\* the pattern of a word is the pattern of its image under any one-to-one
\* substitution; two words of equal length have equal patterns exactly when
\* one is the image of the other under a one-to-one substitution.
C14_PatternIsFirstAppearanceLabelling ==
    /\ patPc \in {"patterned", "imaged", "compared"} =>
          /\ Len(patterns.input) = Len(patInput)
          /\ \A i \in 1..Len(patInput) :
                patterns.input[i] = ASCII_A + AppearanceOrder(patInput, i) - 1
    /\ patPc = "imaged" => patterns.image = patterns.input
    /\ patPc = "compared" =>
          ((patterns.other = patterns.input) <=> IsImageUnderOneToOne(patInput, patOther))

\* A word with a repeated letter and another word spelt with other letters
\* got the same pattern.
C14_Witness ==
    /\ patPc = "compared"
    /\ Len(patInput) = MaxPatternLen
    /\ Cardinality(Range0(patInput)) = 2
    /\ Range0(patInput) \cap Range0(patOther) = {}
    /\ patterns.other = patterns.input

\* ------------------------------------------------------ n-gram scanner

\* upperCaseByte: a lower-case letter less 32, any other byte as it is.
upperCaseByte(inByte) == IF inByte \in LowerLetters THEN inByte - (ASCII_a - ASCII_A) ELSE inByte

\* lettersRegex.Match on the inner scanner's token: no match on no bytes.
TokenIsLetters(token) == token # <<>> /\ \A i \in 1..Len(token) : lettersRegex(token[i])

\* The error of an input too short for one window.
shortInputError == "Text was not long enough to make an ngram!"

\* The inner bufio.Scanner, split by bytes: Scan() yields the next byte, or
\* returns false at the end of the input and leaves no token.
InnerScan(input, pos) ==
    IF pos < Len(input)
    THEN [more |-> TRUE, pos |-> pos + 1, token |-> <<input[pos + 1]>>]
    ELSE [more |-> FALSE, pos |-> pos, token |-> <<>>]

\* A window that takes the new byte at its end without moving.
ShiftInWithoutMoving(buffer, b) == [i \in 1..Len(buffer) |-> IF i < Len(buffer) THEN buffer[i] ELSE b]

\* The window moved one place to the left, the new byte at its end.
ShiftIn(buffer, b) == [i \in 1..Len(buffer) |-> IF i < Len(buffer) THEN buffer[i + 1] ELSE b]

ScanInputs == SeqsUpTo(TextBytes, MaxScanLen)

\* NewNgramScanner(reader, size, safeInput), and the caller about to loop
\* "for scanner.Scan() { collect scanner.Text() }".
ScanInit ==
    /\ WSIdle
    /\ SubIdle
    /\ LateIdle
    /\ TrieIdle
    /\ PatIdle
    /\ HCIdle
    /\ scanInput \in ScanInputs
    /\ bufSize \in 1..MaxNgramSize
    /\ trustSafeInput \in BOOLEAN
    /\ innerPos = 0
    /\ innerToken = <<>>
    /\ ngramBuffer = <<>>
    /\ foundError = noError
    /\ produced = <<>>
    /\ scanReturned = "none"
    /\ scanPc = "scan"

\* Scan finds the input at its end and returns false.
ScanAtEnd ==
    /\ scanPc = "scan"
    /\ LET r == InnerScan(scanInput, innerPos)
       IN /\ ~r.more
          /\ innerPos' = r.pos
          /\ innerToken' = r.token
    /\ scanReturned' = "false"
    /\ scanPc' = "done"
    /\ UNCHANGED <<wsVars, subVars, lateVars, trieVars, patVars, hcVars, scanInput, bufSize, trustSafeInput,
                   ngramBuffer, foundError, produced>>

\* Scan reads a byte that is no letter and starts over ("return scanner.Scan()").
ScanSkip ==
    /\ scanPc = "scan"
    /\ LET r == InnerScan(scanInput, innerPos)
       IN /\ r.more
          /\ ~trustSafeInput /\ ~TokenIsLetters(r.token)
          /\ innerPos' = r.pos
          /\ innerToken' = r.token
    /\ UNCHANGED <<wsVars, subVars, lateVars, trieVars, patVars, hcVars, scanInput, bufSize, trustSafeInput,
                   ngramBuffer, foundError, produced, scanReturned, scanPc>>

\* Scan, its window full, moves it on by the byte read and returns true; the
\* caller collects the window.
ScanAdvance ==
    /\ scanPc = "scan"
    /\ LET r == InnerScan(scanInput, innerPos)
       IN /\ r.more
          /\ trustSafeInput \/ TokenIsLetters(r.token)
          /\ Len(ngramBuffer) = bufSize
          /\ innerPos' = r.pos
          /\ innerToken' = r.token
          /\ ngramBuffer' = ShiftIn(ngramBuffer, upperCaseByte(r.token[1]))
          /\ produced' = Append(produced, ngramBuffer')
    /\ scanReturned' = "true"
    /\ UNCHANGED <<wsVars, subVars, lateVars, trieVars, patVars, hcVars, scanInput, bufSize, trustSafeInput,
                   foundError, scanPc>>

\* Scan, its window not yet full, enters the loop that fills it.
ScanEnterFill ==
    /\ scanPc = "scan"
    /\ LET r == InnerScan(scanInput, innerPos)
       IN /\ r.more
          /\ trustSafeInput \/ TokenIsLetters(r.token)
          /\ Len(ngramBuffer) # bufSize
          /\ innerPos' = r.pos
          /\ innerToken' = r.token
    /\ scanPc' = "fill"
    /\ UNCHANGED <<wsVars, subVars, lateVars, trieVars, patVars, hcVars, scanInput, bufSize, trustSafeInput,
                   ngramBuffer, foundError, produced, scanReturned>>

\* One turn of the filling loop on a token that is no letter: the inner
\* scanner is asked for the next byte, its answer is not looked at, and the
\* loop goes round.
FillSkip ==
    /\ scanPc = "fill"
    /\ Len(ngramBuffer) < bufSize
    /\ ~trustSafeInput /\ ~TokenIsLetters(innerToken)
    /\ LET r == InnerScan(scanInput, innerPos)
       IN /\ innerPos' = r.pos
          /\ innerToken' = r.token
    /\ UNCHANGED <<wsVars, subVars, lateVars, trieVars, patVars, hcVars, scanInput, bufSize, trustSafeInput,
                   ngramBuffer, foundError, produced, scanReturned, scanPc>>

\* One turn of the filling loop on a letter: it joins the window; a full
\* window is returned, else the next byte is read, and at the end of the
\* input the short-input error is set and Scan returns false.
FillAppend ==
    /\ scanPc = "fill"
    /\ Len(ngramBuffer) < bufSize
    /\ trustSafeInput \/ TokenIsLetters(innerToken)
    /\ LET buffer == Append(ngramBuffer, upperCaseByte(innerToken[1]))
           r == InnerScan(scanInput, innerPos)
       IN /\ ngramBuffer' = buffer
          /\ IF Len(buffer) = bufSize
             THEN /\ produced' = Append(produced, buffer)
                  /\ scanReturned' = "true"
                  /\ scanPc' = "scan"
                  /\ UNCHANGED <<innerPos, innerToken, foundError>>
             ELSE /\ innerPos' = r.pos
                  /\ innerToken' = r.token
                  /\ UNCHANGED produced
                  /\ IF ~r.more
                     THEN /\ foundError' = shortInputError
                          /\ scanReturned' = "false"
                          /\ scanPc' = "done"
                     ELSE UNCHANGED <<foundError, scanReturned, scanPc>>
    /\ UNCHANGED <<wsVars, subVars, lateVars, trieVars, patVars, hcVars, scanInput, bufSize, trustSafeInput>>

ScanNext == ScanAtEnd \/ ScanSkip \/ ScanAdvance \/ ScanEnterFill \/ FillSkip \/ FillAppend

SpecScanner == ScanInit /\ [][ScanNext]_vars

\* The caller's loop under a scheduler that lets the running call go on.
SpecScannerFair == SpecScanner /\ WF_vars(ScanNext)

\* ------------------------------------------- n-gram scanner: properties

\* The letters of the input, upper-cased, in order.
LettersProjection(input) ==
    LET IsLetter(b) == lettersRegex(b)
        letters == SelectSeq(input, IsLetter)
    IN [i \in 1..Len(letters) |-> upperCaseByte(letters[i])]

\* The windows of length n of a text, from left to right.
WindowsOf(text, n) == [i \in 1..(Len(text) - n + 1) |-> SubSeq(text, i, i + n - 1)]

IsPrefixOf(a, b) == Len(a) <= Len(b) /\ SubSeq(b, 1, Len(a)) = a

\* The caller's loop has collected the first windows of the letters of the
\* input, and all of them once Scan has returned false.
WindowsOfLettersCollected ==
    LET expected == WindowsOf(LettersProjection(scanInput), bufSize)
    IN /\ IsPrefixOf(produced, expected)
       /\ scanPc = "done" => (produced = expected /\ scanReturned = "false")

C16_ShortInputReportsError ==
    (scanPc = "done" /\ Len(LettersProjection(scanInput)) < bufSize) =>
        /\ produced = <<>>
        /\ scanReturned = "false"
        /\ foundError = shortInputError

\* C17: on every input and every n >= 1 each call of Scan ends, and after
\* finitely many calls Scan returns false.
C17_ScanEventuallyReturnsFalse == <>(scanPc = "done")

\* ------------------------------------------------------------ hill climb

\* lettersInOrder: the letters of the keys.
lettersInOrder == [i \in 1..NumLetters |-> ASCII_A + i - 1]

\* GenerateRandomKey: any shuffle of the letters.
RandomKeys ==
    {key \in [1..NumLetters -> UpperLetters] : \A i, j \in 1..NumLetters : key[i] = key[j] => i = j}

\* A key with the letters at two places exchanged.
SwapLetters(key, swap1, swap2) ==
    [i \in 1..Len(key) |-> IF i = swap1 THEN key[swap2] ELSE IF i = swap2 THEN key[swap1] ELSE key[i]]

\* A mutation that writes one letter over another in place of a swap.
MutateKeyByOverwriting(n, plainLetters) ==
    IF n <= 0 THEN {plainLetters}
    ELSE {[i \in 1..Len(plainLetters) |-> IF i = swap1 THEN plainLetters[swap2] ELSE plainLetters[i]] :
            swap1 \in 1..Len(plainLetters), swap2 \in 1..Len(plainLetters)}

\* MutateKeyNTimes: the keys that n random swaps can make of a copy of the key.
RECURSIVE MutateKeyNTimes(_, _)
MutateKeyNTimes(n, plainLetters) ==
    IF n <= 0 THEN {plainLetters}
    ELSE {SwapLetters(newKey, swap1, swap2) :
            newKey \in MutateKeyNTimes(n - 1, plainLetters),
            swap1 \in 1..Len(plainLetters), swap2 \in 1..Len(plainLetters)}

\* DecipherStringFromKey: a byte that indexes the key is replaced by the
\* key's letter, any other byte is kept.
DecipherStringFromKey(text, plainLetters) ==
    [i \in 1..Len(text) |->
        LET index == ChildIndex(text[i])
        IN IF index > NumLetters - 1 THEN text[i] ELSE plainLetters[index + 1]]

\* The windows a scanner created with safeInput = true yields: every byte
\* enters, upper-cased; a text shorter than the window yields none.
TrustedNgrams(text, size) ==
    [i \in 1..(Len(text) - size + 1) |-> [j \in 1..size |-> upperCaseByte(text[i + j - 1])]]

\* CalculateNgramFitness: the sum over the windows of the deciphered text of
\* the logarithm the map gives, and of -1000 for a window the map lacks.
RECURSIVE SumFitness(_, _, _)
SumFitness(ngrams, frequencyMap, i) ==
    IF i > Len(ngrams) THEN 0
    ELSE (IF ngrams[i] \in DOMAIN frequencyMap THEN frequencyMap[ngrams[i]] ELSE -1000)
         + SumFitness(ngrams, frequencyMap, i + 1)

CalculateNgramFitness(deciphered, frequencyMap, ngramSize) ==
    SumFitness(TrustedNgrams(deciphered, ngramSize), frequencyMap, 1)

NewHillclimbCandidate(key, ciphertext, frequencyMap, ngramSize) ==
    [Fitness |-> CalculateNgramFitness(DecipherStringFromKey(ciphertext, key), frequencyMap, ngramSize),
     Key |-> key]

\* The comparison of the climb with its sense turned to "at least".
FitnessAtLeast(candidate, other) == candidate.Fitness >= other.Fitness

\* "candidate.Fitness > other.Fitness", the comparison of the climb.
FitnessBeats(candidate, other) == candidate.Fitness > other.Fitness

\* sort.Sort of an archive that was sorted before its last entry was put in:
\* the last entry moves up past the entries it beats (Less is "fitter").
RECURSIVE SortCandidates(_)
SortCandidates(h) ==
    IF Len(h) <= 1 THEN h
    ELSE LET last == h[Len(h)]
             prev == h[Len(h) - 1]
         IN IF FitnessBeats(last, prev)
            THEN Append(SortCandidates(Append(SubSeq(h, 1, Len(h) - 2), last)), prev)
            ELSE h

\* The archive after the new best of the generation is offered to it.
OfferToArchive(archive, best, candidateCount) ==
    IF Len(archive) < candidateCount
    THEN SortCandidates(Append(archive, best))
    ELSE LET currentLastPlace == archive[Len(archive)]
         IN IF FitnessBeats(best, currentLastPlace)
            THEN SortCandidates([archive EXCEPT ![Len(archive)] = best])
            ELSE archive

\* A look around that ends on the last candidate checked.
LastOfLookaround(current, checks) == IF Len(checks) = 0 THEN current ELSE checks[Len(checks)]

\* The look around: the best of the current candidate and the candidates
\* checked, the earlier one when two are as fit.
RECURSIVE BestOfLookaround(_, _)
BestOfLookaround(current, checks) ==
    IF Len(checks) = 0 THEN current
    ELSE BestOfLookaround(IF FitnessBeats(checks[1], current) THEN checks[1] ELSE current, Tail(checks))

\* The frequency maps: the first k letters, the i-th with logarithm -i.
FrequencyMaps ==
    {[ngram \in {<<ASCII_A + i - 1>> : i \in 1..k} |-> ASCII_A - 1 - ngram[1]] : k \in 0..NumLetters}

\* The ciphertexts: no letter, one lower-case letter, and the first and the
\* last letter with a space between them.
HCCipherTexts == {<<SPACE>>, <<ASCII_a>>, <<ASCII_A, SPACE, ASCII_A + NumLetters - 1>>}

HCParams ==
    [cipherText : HCCipherTexts, frequencyMap : FrequencyMaps,
     generations : {0, MaxGenerations}, mutations : {0, 1}, regenAfter : {0, 2},
     candidateCount : {0, 1, 2}, localLookaround : {0, 2}, ngramSize : {1}]

\* PerformHillclimbSolve up to its loop: the letters of the ciphertext, the
\* first candidate from a random key, the archive with that candidate in it.
HCInit ==
    /\ WSIdle
    /\ SubIdle
    /\ LateIdle
    /\ TrieIdle
    /\ PatIdle
    /\ ScanIdle
    /\ hcParams \in HCParams
    /\ justCipherText = LettersProjection(hcParams.cipherText)
    /\ \E key \in RandomKeys :
          currentCandidate = NewHillclimbCandidate(key, justCipherText, hcParams.frequencyMap,
                                                   hcParams.ngramSize)
    /\ bestOfGeneration = currentCandidate
    /\ candidates = <<bestOfGeneration>>
    /\ fitnessGenerations = 1
    /\ currentGeneration = 1
    /\ reseeds = 0
    /\ hcResults = <<>>
    /\ hcPc = "loop"

\* The current candidate beats the best of the generation: it becomes the
\* best, the stale counter is cleared and the archive is offered the best.
HCImprove ==
    /\ hcPc = "loop"
    /\ currentGeneration <= hcParams.generations
    /\ FitnessBeats(currentCandidate, bestOfGeneration)
    /\ bestOfGeneration' = currentCandidate
    /\ fitnessGenerations' = 0
    /\ candidates' = OfferToArchive(candidates, currentCandidate, hcParams.candidateCount)
    /\ hcPc' = "check"
    /\ UNCHANGED <<wsVars, subVars, lateVars, trieVars, patVars, scanVars, hcParams, justCipherText,
                   currentCandidate, currentGeneration, reseeds, hcResults>>

\* The current candidate does not beat the best: the stale counter goes up.
HCStale ==
    /\ hcPc = "loop"
    /\ currentGeneration <= hcParams.generations
    /\ ~FitnessBeats(currentCandidate, bestOfGeneration)
    /\ fitnessGenerations' = fitnessGenerations + 1
    /\ hcPc' = "check"
    /\ UNCHANGED <<wsVars, subVars, lateVars, trieVars, patVars, scanVars, hcParams, justCipherText,
                   currentCandidate, bestOfGeneration, candidates, currentGeneration, reseeds,
                   hcResults>>

\* Too long without a better fitness: a new random key, a new generation.
HCReseed ==
    /\ hcPc = "check"
    /\ fitnessGenerations > hcParams.regenAfter
    /\ \E key \in RandomKeys :
          bestOfGeneration' = NewHillclimbCandidate(key, justCipherText, hcParams.frequencyMap,
                                                    hcParams.ngramSize)
    /\ currentCandidate' = bestOfGeneration'
    /\ fitnessGenerations' = 0
    /\ currentGeneration' = currentGeneration + 1
    /\ reseeds' = reseeds + 1
    /\ hcPc' = "loop"
    /\ UNCHANGED <<wsVars, subVars, lateVars, trieVars, patVars, scanVars, hcParams, justCipherText,
                   candidates, hcResults>>

\* The look around: localLookaround candidates from mutated keys, the best of
\* them and the current candidate becomes the current candidate.
HCLookaround ==
    /\ hcPc = "check"
    /\ ~(fitnessGenerations > hcParams.regenAfter)
    /\ \E keys \in [1..hcParams.localLookaround ->
                        MutateKeyNTimes(hcParams.mutations, currentCandidate.Key)] :
          LET checks == [i \in 1..hcParams.localLookaround |->
                            NewHillclimbCandidate(keys[i], justCipherText, hcParams.frequencyMap,
                                                  hcParams.ngramSize)]
          IN currentCandidate' = BestOfLookaround(currentCandidate, checks)
    /\ hcPc' = "loop"
    /\ UNCHANGED <<wsVars, subVars, lateVars, trieVars, patVars, scanVars, hcParams, justCipherText,
                   bestOfGeneration, candidates, fitnessGenerations, currentGeneration, reseeds,
                   hcResults>>

\* The generations are over: the archive is returned, each candidate with
\* the text it deciphers.
HCReturn ==
    /\ hcPc = "loop"
    /\ ~(currentGeneration <= hcParams.generations)
    /\ hcResults' = [i \in 1..Len(candidates) |->
                        [Candidate |-> candidates[i],
                         DecipheredText |-> DecipherStringFromKey(ToUpperString(hcParams.cipherText),
                                                                  candidates[i].Key)]]
    /\ hcPc' = "returned"
    /\ UNCHANGED <<wsVars, subVars, lateVars, trieVars, patVars, scanVars, hcParams, justCipherText,
                   currentCandidate, bestOfGeneration, candidates, fitnessGenerations,
                   currentGeneration, reseeds>>

HCNext == HCImprove \/ HCStale \/ HCReseed \/ HCLookaround \/ HCReturn

SpecHillclimb == HCInit /\ [][HCNext]_vars

\* The climb under a scheduler that lets it run.
SpecHillclimbFair == SpecHillclimb /\ WF_vars(HCNext)

\* ------------------------------------------------- hill climb: properties

\* Whether an archive is in descending order of fitness.
SortedDescending(h) == \A i \in 1..(Len(h) - 1) : h[i].Fitness >= h[i + 1].Fitness

\* C18: within one trajectory (no reseed in between) the fitness of the best
\* of the generation never goes down; the current candidate is never less
\* fit than the best of the generation; and the current candidate is replaced
\* only by a candidate of a mutated key that is strictly fitter.
C18_BestOfGenerationNeverDecreases ==
    [][/\ reseeds' = reseeds => bestOfGeneration'.Fitness >= bestOfGeneration.Fitness
       /\ currentCandidate'.Fitness >= bestOfGeneration'.Fitness
       /\ (reseeds' = reseeds /\ currentCandidate' # currentCandidate) =>
             /\ currentCandidate'.Fitness > currentCandidate.Fitness
             /\ currentCandidate'.Key \in MutateKeyNTimes(hcParams.mutations, currentCandidate.Key)]_vars

\* The first trajectory has just taken a fitter current candidate as its
\* best, and the archive holds the seed and the new best.
C18_Witness ==
    /\ hcPc = "check"
    /\ fitnessGenerations = 0
    /\ reseeds = 0
    /\ bestOfGeneration = currentCandidate
    /\ Len(candidates) = 2
    /\ candidates[1] = bestOfGeneration
    /\ candidates[1].Fitness > candidates[2].Fitness

\* C19: at every loop iteration and on return the archive holds at most
\* candidateCount entries, in descending order of fitness; into a full
\* archive a candidate enters only in place of the lowest entry, and only if
\* it is fitter than that entry.
C19_ArchiveBoundedAndSorted ==
    /\ [](hcPc # "idle" =>
            /\ Len(candidates) <= hcParams.candidateCount
            /\ SortedDescending(candidates)
            /\ Len(hcResults) <= hcParams.candidateCount)
    /\ [][(Len(candidates) >= hcParams.candidateCount /\ candidates' # candidates) =>
             /\ Len(candidates') = Len(candidates)
             /\ bestOfGeneration'.Fitness > candidates[Len(candidates)].Fitness
             /\ \E i \in 1..Len(candidates') :
                   /\ candidates'[i] = bestOfGeneration'
                   /\ SubSeq(candidates', 1, i - 1) = SubSeq(candidates, 1, i - 1)
                   /\ SubSeq(candidates', i + 1, Len(candidates')) = SubSeq(candidates, i, Len(candidates) - 1)]_vars

\* C20: PerformHillclimbSolve returns, whatever its arguments and its random
\* choices; the generation counter moves only at a reseed, by one; and the
\* function has returned once exactly `generations` reseeds have happened.
C20_ReturnsAfterGenerationsReseeds ==
    /\ <>(hcPc = "returned")
    /\ [](hcPc = "returned" => reseeds = hcParams.generations)
    /\ [][currentGeneration' # currentGeneration =>
             (currentGeneration' = currentGeneration + 1 /\ reseeds' = reseeds + 1)]_vars

\* The climb has returned after the most generations, the last of them
\* having found a fitter candidate before it was given up.
C20_Witness ==
    /\ hcPc = "returned"
    /\ hcParams.generations = MaxGenerations
    /\ reseeds = MaxGenerations
    /\ hcParams.regenAfter > 0
    /\ Len(hcResults) = 2

\* ---------------------------------------- letter bank search, call by call

\* The solves and exercises above at rest.
EarlyIdle == WSIdle /\ SubIdle /\ TrieIdle /\ PatIdle /\ ScanIdle /\ HCIdle

\* A call of RecursiveFindLetterBanks: its node, its used letters, the length
\* of its word list, and the child slot its loop looks at next.
Frame(node, usedLetters, numWords) ==
    [node |-> node, usedLetters |-> usedLetters, numWords |-> numWords, index |-> 0]

\* The word lists a call sends as it starts: one, if all letters are used
\* and the node ends a word.
SentOnEntry(trie, letterSet, node, usedLetters) ==
    IF LetterBankSatisfied(usedLetters, letterSet) /\ trie[node].atWordBoundary THEN 1 ELSE 0

\* The maxNumWords of a solve: small ones, and the default for "unbounded".
LBMaxNumWords == {1, 2, MaxInt32}

LBInit ==
    /\ EarlyIdle
    /\ FreqIdle
    /\ NgIdle
    /\ CaesarIdle
    /\ IncIdle
    /\ PMIdle
    /\ MapIdle
    /\ \E d \in Dictionaries : lbDictionary = ReadDictionaryToTrie(d)
    /\ \E text \in Texts : lbLetterSet = CreateLetterSet(text)
    /\ lbMaxNumWords \in LBMaxNumWords
    /\ lbPending = lbLetterSet
    /\ lbStack = <<>>
    /\ lbSent = 0
    /\ lbPc = "search"

\* The starting loop takes a letter of the set, in the order of the map's
\* range; a letter the dictionary has no word for is passed over, for any
\* other the search is called on the letter's node.
LBStart ==
    /\ lbPc = "search"
    /\ lbStack = <<>>
    /\ \E letter \in lbPending :
          LET child == children(lbDictionary, <<>>, ChildIndex(letter))
          IN /\ lbPending' = lbPending \ {letter}
             /\ IF child # nil
                THEN /\ lbStack' = <<Frame(child, {letter}, 0)>>
                     /\ lbSent' = lbSent + SentOnEntry(lbDictionary, lbLetterSet, child, {letter})
                ELSE UNCHANGED <<lbStack, lbSent>>
    /\ UNCHANGED <<lbOthers, lbDictionary, lbLetterSet, lbMaxNumWords, lbPc>>

\* The loop of the innermost call passes over a slot: a nil child, or a
\* letter that is not in the set.
LBSkipChild ==
    /\ lbPc = "search"
    /\ lbStack # <<>>
    /\ LET top == lbStack[Len(lbStack)]
           child == children(lbDictionary, top.node, top.index)
       IN /\ top.index < NumSlots
          /\ \/ child = nil
             \/ (top.index # NumSlots - 1 /\ (top.index + ASCII_A) \notin lbLetterSet)
          /\ lbStack' = [lbStack EXCEPT ![Len(lbStack)].index = top.index + 1]
    /\ UNCHANGED <<lbOthers, lbDictionary, lbLetterSet, lbMaxNumWords, lbPending, lbSent, lbPc>>

\* The loop of the innermost call follows a child whose letter is in the
\* set: a nested call, if the stack can hold it.
LBDescend ==
    /\ lbPc = "search"
    /\ lbStack # <<>>
    /\ Len(lbStack) < MaxStackFrames
    /\ LET top == lbStack[Len(lbStack)]
           child == children(lbDictionary, top.node, top.index)
           childLetter == top.index + ASCII_A
           used == top.usedLetters \cup {childLetter}
       IN /\ top.index < NumSlots - 1
          /\ child # nil
          /\ childLetter \in lbLetterSet
          /\ lbStack' = Append([lbStack EXCEPT ![Len(lbStack)].index = top.index + 1],
                               Frame(child, used, top.numWords))
          /\ lbSent' = lbSent + SentOnEntry(lbDictionary, lbLetterSet, child, used)
    /\ UNCHANGED <<lbOthers, lbDictionary, lbLetterSet, lbMaxNumWords, lbPending, lbPc>>

\* The loop of the innermost call finds a child in the last slot: at a word
\* boundary, and with room for one more word, the search is called on the
\* root with the word added to the list; the loop ends after the call.
LBWordBreak ==
    /\ lbPc = "search"
    /\ lbStack # <<>>
    /\ Len(lbStack) < MaxStackFrames
    /\ LET top == lbStack[Len(lbStack)]
       IN /\ top.index = NumSlots - 1
          /\ children(lbDictionary, top.node, top.index) # nil
          /\ lbDictionary[top.node].atWordBoundary
          /\ top.numWords + 1 <= lbMaxNumWords
          /\ lbStack' = Append([lbStack EXCEPT ![Len(lbStack)].index = NumSlots],
                               Frame(<<>>, top.usedLetters, top.numWords + 1))
          /\ lbSent' = lbSent + SentOnEntry(lbDictionary, lbLetterSet, <<>>, top.usedLetters)
    /\ UNCHANGED <<lbOthers, lbDictionary, lbLetterSet, lbMaxNumWords, lbPending, lbPc>>

\* The loop of the innermost call finds a child in the last slot, but no
\* word ends here or the list is full: the loop ends without a call.
LBBreak ==
    /\ lbPc = "search"
    /\ lbStack # <<>>
    /\ LET top == lbStack[Len(lbStack)]
       IN /\ top.index = NumSlots - 1
          /\ children(lbDictionary, top.node, top.index) # nil
          /\ ~(lbDictionary[top.node].atWordBoundary /\ top.numWords + 1 <= lbMaxNumWords)
          /\ lbStack' = [lbStack EXCEPT ![Len(lbStack)].index = NumSlots]
    /\ UNCHANGED <<lbOthers, lbDictionary, lbLetterSet, lbMaxNumWords, lbPending, lbSent, lbPc>>

\* The innermost call has looked at all its slots and returns.
LBReturn ==
    /\ lbPc = "search"
    /\ lbStack # <<>>
    /\ lbStack[Len(lbStack)].index >= NumSlots
    /\ lbStack' = SubSeq(lbStack, 1, Len(lbStack) - 1)
    /\ UNCHANGED <<lbOthers, lbDictionary, lbLetterSet, lbMaxNumWords, lbPending, lbSent, lbPc>>

\* A nested call is due and the stack is at its limit: the run-time ends
\* the program ("goroutine stack exceeds limit").
LBStackOverflow ==
    /\ lbPc = "search"
    /\ Len(lbStack) >= MaxStackFrames
    /\ LET top == lbStack[Len(lbStack)]
           child == children(lbDictionary, top.node, top.index)
       IN /\ top.index < NumSlots
          /\ child # nil
          /\ IF top.index = NumSlots - 1
             THEN lbDictionary[top.node].atWordBoundary /\ top.numWords + 1 <= lbMaxNumWords
             ELSE (top.index + ASCII_A) \in lbLetterSet
    /\ lbPc' = "fatal error: stack overflow"
    /\ UNCHANGED <<lbOthers, lbDictionary, lbLetterSet, lbMaxNumWords, lbPending, lbStack, lbSent>>

\* The starting loop is over: the channel is closed, the collector ends and
\* PerformLetterBankSolve returns its results.
LBFinish ==
    /\ lbPc = "search"
    /\ lbStack = <<>>
    /\ lbPending = {}
    /\ lbPc' = "returned"
    /\ UNCHANGED <<lbOthers, lbDictionary, lbLetterSet, lbMaxNumWords, lbPending, lbStack, lbSent>>

LBNext ==
    LBStart \/ LBSkipChild \/ LBDescend \/ LBWordBreak \/ LBBreak \/ LBReturn
    \/ LBStackOverflow \/ LBFinish

SpecLetterBankCalls == LBInit /\ [][LBNext]_vars

\* The search under a scheduler that lets it run.
SpecLetterBankCallsFair == SpecLetterBankCalls /\ WF_vars(LBNext)

\* C21: PerformLetterBankSolve terminates and returns its (finite) results
\* for every dictionary, every input and every maxNumWords, the unbounded
\* default among them.
C21_LetterBankSolveReturns == <>(lbPc = "returned")

\* ------------------------------------------------------- frequency file

\* strings.Split(line, "\t"): the pieces between the tabs, empty ones
\* included.
RECURSIVE SplitOnTab(_)
SplitOnTab(line) ==
    IF \A i \in 1..Len(line) : line[i] # TAB THEN <<line>>
    ELSE LET first == CHOOSE i \in 1..Len(line) : line[i] = TAB /\ \A j \in 1..(i - 1) : line[j] # TAB
         IN <<SubSeq(line, 1, first - 1)>> \o SplitOnTab(SubSeq(line, first + 1, Len(line)))

\* strconv.ParseFloat on a field of letters and digits: a number for a
\* non-empty row of decimal digits, an error for anything else.
RECURSIVE DecimalValue(_)
DecimalValue(field) ==
    IF field = <<>> THEN 0
    ELSE 10 * DecimalValue(SubSeq(field, 1, Len(field) - 1)) + (field[Len(field)] - ASCII_0)

ParseFloat(field) ==
    IF field # <<>> /\ \A i \in 1..Len(field) : field[i] >= ASCII_0 /\ field[i] <= ASCII_9
    THEN [err |-> FALSE, value |-> DecimalValue(field)]
    ELSE [err |-> TRUE, value |-> 0]

\* The lines a frequency file is made of: records of n-grams of one, two and
\* no letters, and lines that are no records.
FreqLineChoices ==
    { <<ASCII_A, TAB, ASCII_0 + 1>>,
      <<ASCII_A + 1, TAB, ASCII_0 + 2>>,
      <<ASCII_A, ASCII_A, TAB, ASCII_0 + 1, ASCII_0>>,
      <<TAB, ASCII_0 + 1>>,
      <<ASCII_A>>,
      <<ASCII_A, TAB, ASCII_A>>,
      <<ASCII_A, TAB, ASCII_0 + 1, TAB, ASCII_0 + 1>> }

FreqFiles == SeqsUpTo(FreqLineChoices, MaxFreqLines)

FreqInit ==
    /\ EarlyIdle
    /\ LBIdle
    /\ NgIdle
    /\ CaesarIdle
    /\ IncIdle
    /\ PMIdle
    /\ MapIdle
    /\ freqLines \in FreqFiles
    /\ freqRead = 0
    /\ freqResult = <<>>
    /\ freqNgramSize = 0
    /\ freqPc = "scan"

\* The next line is a record: it is put in the map, and the n-gram length is
\* set from it if it is still zero.
FreqLoadLine ==
    /\ freqPc = "scan"
    /\ freqRead < Len(freqLines)
    /\ LET fields == SplitOnTab(freqLines[freqRead + 1])
       IN /\ Len(fields) = 2
          /\ ~ParseFloat(fields[2]).err
          /\ freqResult' = (fields[1] :> ParseFloat(fields[2]).value) @@ freqResult
          /\ freqNgramSize' = IF freqNgramSize = 0 THEN Len(fields[1]) ELSE freqNgramSize
    /\ freqRead' = freqRead + 1
    /\ UNCHANGED <<freqOthers, freqLines, freqPc>>

\* The next line is no record (not two fields, or no number): the program
\* prints the line and exits.
FreqRejectLine ==
    /\ freqPc = "scan"
    /\ freqRead < Len(freqLines)
    /\ LET fields == SplitOnTab(freqLines[freqRead + 1])
       IN IF Len(fields) # 2 THEN TRUE ELSE ParseFloat(fields[2]).err
    /\ freqRead' = freqRead + 1
    /\ freqPc' = "exit"
    /\ UNCHANGED <<freqOthers, freqLines, freqResult, freqNgramSize>>

\* No line is left: the map and the n-gram length are returned.
FreqReturn ==
    /\ freqPc = "scan"
    /\ freqRead = Len(freqLines)
    /\ freqPc' = "returned"
    /\ UNCHANGED <<freqOthers, freqLines, freqRead, freqResult, freqNgramSize>>

FreqNext == FreqLoadLine \/ FreqRejectLine \/ FreqReturn

SpecFrequencyFile == FreqInit /\ [][FreqNext]_vars

\* The n-gram of a record.
NgramOfLine(line) == SplitOnTab(line)[1]

\* C22: the n-gram length is that of the first record, and every later
\* record must have an n-gram of that length: a file with a record of
\* another length is rejected, not loaded.
C22_UnequalNgramLengthRejected ==
    freqPc = "returned" =>
        /\ \A i \in 1..Len(freqLines) : Len(NgramOfLine(freqLines[i])) = Len(NgramOfLine(freqLines[1]))
        /\ \A ngram \in DOMAIN freqResult : Len(ngram) = freqNgramSize

\* ------------------------------------------------------ n-gram counting

\* A count that forgets what the trie holds for the n-gram.
NextCountForgetting(trie, currentNgram) == 1

\* The count stored for an n-gram just scanned: one more than the count the
\* trie holds for it, or one if the trie holds none.
NextCount(trie, currentNgram) ==
    LET got == getValueForString(trie, currentNgram)
    IN IF got.found THEN got.value + 1 ELSE 1

\* readNgramsIntoTrie(inReader, ngramSize): a new trie, a checking scanner
\* over the reader, no n-gram counted, and the loop about to call Scan.
NgInit ==
    /\ WSIdle
    /\ SubIdle
    /\ TrieIdle
    /\ PatIdle
    /\ HCIdle
    /\ LBIdle
    /\ FreqIdle
    /\ CaesarIdle
    /\ IncIdle
    /\ PMIdle
    /\ MapIdle
    /\ scanInput \in ScanInputs
    /\ bufSize \in 1..MaxNgramSize
    /\ trustSafeInput = FALSE
    /\ innerPos = 0
    /\ innerToken = <<>>
    /\ ngramBuffer = <<>>
    /\ foundError = noError
    /\ produced = <<>>
    /\ scanReturned = "none"
    /\ scanPc = "scan"
    /\ ngTrie = newTrie
    /\ totalNGrams = 0
    /\ ngPc = "loop"

\* The loop calls scanner.Scan(): one step of the scanner.
NgScan ==
    /\ ngPc = "loop"
    /\ totalNGrams = Len(produced)
    /\ ScanNext

\* The body of the loop on the n-gram Scan has yielded: it is counted.
NgCount ==
    /\ ngPc = "loop"
    /\ totalNGrams < Len(produced)
    /\ LET currentNgram == produced[Len(produced)]
           added == addValueForString(ngTrie, currentNgram, NextCount(ngTrie, currentNgram))
       IN IF added.err
          THEN /\ ngPc' = "exit"
               /\ UNCHANGED ngTrie
          ELSE /\ ngTrie' = added.trie
               /\ UNCHANGED ngPc
    /\ totalNGrams' = totalNGrams + 1
    /\ UNCHANGED ngOthers

\* Scan has returned false: the trie and the total are returned.
NgReturn ==
    /\ ngPc = "loop"
    /\ scanPc = "done"
    /\ ngPc' = "returned"
    /\ UNCHANGED <<ngOthers, ngTrie, totalNGrams>>

NgNext == NgScan \/ NgCount \/ NgReturn

SpecNgramCount == NgInit /\ [][NgNext]_vars

\* The number of windows of the letters of the input equal to an n-gram.
WindowCount(ngram) ==
    LET windows == WindowsOf(LettersProjection(scanInput), bufSize)
    IN Cardinality({i \in 1..Len(windows) : windows[i] = ngram})

\* The sum of the counts the trie holds for the n-grams of a set.
RECURSIVE SumOfCounts(_, _)
SumOfCounts(trie, ngrams) ==
    IF ngrams = {} THEN 0
    ELSE LET ngram == CHOOSE g \in ngrams : TRUE
             got == getValueForString(trie, ngram)
         IN (IF got.found THEN got.value ELSE 0) + SumOfCounts(trie, ngrams \ {ngram})

\* The strings of upper-case letters an n-gram can be.
NgramStrings == SeqsUpTo(UpperLetters, MaxNgramSize)

\* C23: after readNgramsIntoTrie the trie holds for each n-gram the number of
\* windows of the text equal to it, holds nothing for an n-gram that never
\* occurs, and the total returned is the number of windows, the sum of the
\* counts held.
C23_TrieCountsWindows ==
    ngPc = "returned" =>
        LET trie == ngTrie
        IN /\ \A ngram \in NgramStrings :
                LET got == getValueForString(trie, ngram)
                IN IF WindowCount(ngram) = 0
                   THEN ~got.found
                   ELSE got.found /\ got.value = WindowCount(ngram)
           /\ totalNGrams = Len(WindowsOf(LettersProjection(scanInput), bufSize))
           /\ totalNGrams = SumOfCounts(trie, NgramStrings)

\* A text of three windows, two of them the same n-gram, has been counted.
C23_Witness ==
    /\ ngPc = "returned"
    /\ totalNGrams = 3
    /\ \E ngram \in NgramStrings :
          LET got == getValueForString(ngTrie, ngram)
          IN got.found /\ got.value = 2

\* -------------------------------------------------------- Caesar shifts

\* IsUppercaseAscii and IsLowercaseAscii over the whole of the two alphabets.
IsUppercaseAsciiByte(char) == ASCII_A <= char /\ char <= ASCII_Z

IsLowercaseAsciiByte(char) == ASCII_a <= char /\ char <= ASCII_z

\* A shift that does not come back to the start of the alphabet.
ShiftByteWithoutWrap(byteToShift, shiftAmount) == (byteToShift + (shiftAmount % 256)) % 256

\* ShiftByte, in the arithmetic of a byte: a letter moves on by the shift
\* and, past the end of its alphabet, comes back in at the start; any other
\* byte stays.
ShiftByte(byteToShift, shiftAmount) ==
    IF ~IsUppercaseAsciiByte(byteToShift) /\ ~IsLowercaseAsciiByte(byteToShift)
    THEN byteToShift
    ELSE LET startByte == IF IsUppercaseAsciiByte(byteToShift) THEN ASCII_A ELSE ASCII_a
             endByte == IF IsUppercaseAsciiByte(byteToShift) THEN ASCII_Z ELSE ASCII_z
             newByte == (byteToShift + (shiftAmount % 256)) % 256
         IN IF newByte > endByte
            THEN (startByte + ((newByte - endByte - 1 + 256) % 256)) % 256
            ELSE newByte

\* The bytes of the texts: the ends of both alphabets, a letter inside, the
\* bytes next to the alphabets, a space and the last byte.
CaesarBytes ==
    {ASCII_A, ASCII_Z, ASCII_a, ASCII_z - 1, ASCII_z, SPACE,
     ASCII_A - 1, ASCII_Z + 1, ASCII_z + 1, 255}

CaesarTexts == SeqsUpTo(CaesarBytes, MaxCaesarLen)

\* PerformCaesarShifts(inputText) about to start its loop at shift 1.
CaesarInit ==
    /\ EarlyIdle
    /\ LBIdle
    /\ FreqIdle
    /\ NgIdle
    /\ IncIdle
    /\ PMIdle
    /\ MapIdle
    /\ inputText \in CaesarTexts
    /\ shift = 1
    /\ caesarResults = <<>>
    /\ caesarPc = "loop"

\* One turn of the loop: the text shifted byte by byte joins the results.
CaesarShiftText ==
    /\ caesarPc = "loop"
    /\ shift <= LastShift
    /\ caesarResults' = Append(caesarResults,
           [ShiftedText |-> [i \in 1..Len(inputText) |-> ShiftByte(inputText[i], shift)],
            Shift |-> shift])
    /\ shift' = shift + 1
    /\ UNCHANGED <<caesarOthers, inputText, caesarPc>>

\* The loop is over: the results are returned.
CaesarReturn ==
    /\ caesarPc = "loop"
    /\ shift > LastShift
    /\ caesarPc' = "returned"
    /\ UNCHANGED <<caesarOthers, inputText, shift, caesarResults>>

CaesarNext == CaesarShiftText \/ CaesarReturn

SpecCaesar == CaesarInit /\ [][CaesarNext]_vars

\* A letter moved forward s places within the alphabet that starts at first
\* and ends at last, coming round at the end.
MovedWithin(b, s, first, last) == first + ((b - first + s) % (last - first + 1))

\* C24: PerformCaesarShifts returns 25 results with the shifts 1 to 25 in
\* order; in the result of shift s every letter is moved forward s places
\* within the alphabet of its case, coming round at the end, every other byte
\* is as it was, and the text is as long as it was.
C24_CaesarShiftsRotateLetters ==
    caesarPc = "returned" =>
        /\ Len(caesarResults) = 25
        /\ \A s \in 1..Len(caesarResults) :
              /\ caesarResults[s].Shift = s
              /\ Len(caesarResults[s].ShiftedText) = Len(inputText)
              /\ \A i \in 1..Len(inputText) :
                    LET b == inputText[i]
                        shifted == caesarResults[s].ShiftedText[i]
                    IN IF b \in ASCII_A..ASCII_Z THEN shifted = MovedWithin(b, s, ASCII_A, ASCII_Z)
                       ELSE IF b \in ASCII_a..ASCII_z THEN shifted = MovedWithin(b, s, ASCII_a, ASCII_z)
                       ELSE shifted = b

\* The shifts of a text with a Z and a byte that is no letter have been
\* returned: at shift 2 the Z has become B, at shift 25 it has become Y, and
\* the other byte is as it was.
C24_Witness ==
    /\ caesarPc = "returned"
    /\ Len(inputText) = 2
    /\ inputText[1] = ASCII_Z
    /\ inputText[2] = SPACE
    /\ caesarResults[2].ShiftedText = <<ASCII_A + 1, SPACE>>
    /\ caesarResults[25].ShiftedText = <<ASCII_Z - 1, SPACE>>

\* --------------------------------------------------------- incrementers

\* NewSliceIncrementer(name, values) with the values 0 to size - 1.
NewSliceIncrementer(size) == [values |-> [i \in 1..size |-> i - 1], currIndex |-> -1]

SliceIsMaxed(si) == si.currIndex >= Len(si.values) - 1

\* SliceIncrementer.Increment: the index moves on unless it is at the end.
SliceIncrement(si) == IF ~SliceIsMaxed(si) THEN [si EXCEPT !.currIndex = @ + 1] ELSE si

SliceReset(si) == [si EXCEPT !.currIndex = -1]

\* SliceIncrementer.GetCurrentValue: the first value at index -1.
SliceGetCurrentValue(si) == IF si.currIndex = -1 THEN si.values[1] ELSE si.values[si.currIndex + 1]

\* IncrementerIncrementer.IsMaxed: every incrementer is maxed.
IsMaxed(incs) == \A i \in 1..Len(incs) : SliceIsMaxed(incs[i])

\* IncrementerIncrementer.Increment: the last incrementer that is not maxed
\* is incremented and all after it are reset; nothing changes if all are
\* maxed.
Increment(incs) ==
    LET notMaxed == {i \in 1..Len(incs) : ~SliceIsMaxed(incs[i])}
    IN IF notMaxed = {} THEN incs
       ELSE LET i == CHOOSE k \in notMaxed : \A l \in notMaxed : l <= k
            IN [j \in 1..Len(incs) |->
                  IF j < i THEN incs[j]
                  ELSE IF j = i THEN SliceIncrement(incs[j])
                  ELSE SliceReset(incs[j])]

\* IncrementerIncrementer.Reset: every incrementer is reset.
Reset(incs) == [j \in 1..Len(incs) |-> SliceReset(incs[j])]

\* The values of all incrementers, as the test reads them.
CurrentValues(incs) == [j \in 1..Len(incs) |-> SliceGetCurrentValue(incs[j])]

\* The product of the sizes, and of the numbers of places an index can be at.
RECURSIVE ProductOfSizes(_)
ProductOfSizes(incs) ==
    IF incs = <<>> THEN 1 ELSE Len(incs[1].values) * ProductOfSizes(Tail(incs))

RECURSIVE ProductOfPlaces(_)
ProductOfPlaces(incs) ==
    IF incs = <<>> THEN 1 ELSE (Len(incs[1].values) + 1) * ProductOfPlaces(Tail(incs))

IncrementerSizes == SeqsUpTo(1..MaxSliceLen, MaxIncrementers) \ {<<>>}

\* An IncrementerIncrementer over new slice incrementers, after Reset.
IncInit ==
    /\ EarlyIdle
    /\ LBIdle
    /\ FreqIdle
    /\ NgIdle
    /\ CaesarIdle
    /\ PMIdle
    /\ MapIdle
    /\ \E sizes \in IncrementerSizes :
          incrementers = [j \in 1..Len(sizes) |-> NewSliceIncrementer(sizes[j])]
    /\ incCalls = 0
    /\ seen = {}
    /\ maxedState = <<>>

\* combo.Increment(), after which the caller notes the values of all the
\* incrementers, and the values at which IsMaxed first held.
IncIncrement ==
    /\ incrementers # <<>>
    /\ incCalls <= ProductOfPlaces(incrementers)
    /\ incrementers' = Increment(incrementers)
    /\ incCalls' = incCalls + 1
    /\ seen' = seen \cup {CurrentValues(incrementers')}
    /\ maxedState' = IF maxedState = <<>> /\ IsMaxed(incrementers')
                     THEN CurrentValues(incrementers') ELSE maxedState
    /\ UNCHANGED incOthers

\* combo.Reset(), and the caller starts to count and to note afresh.
IncReset ==
    /\ incrementers # <<>>
    /\ incCalls > 0
    /\ incrementers' = Reset(incrementers)
    /\ incCalls' = 0
    /\ seen' = {}
    /\ maxedState' = <<>>
    /\ UNCHANGED incOthers

IncNext == IncIncrement \/ IncReset

SpecIncrementer == IncInit /\ [][IncNext]_vars

\* C25: from Reset, at most n1 * ... * nk calls of Increment reach IsMaxed,
\* the values noted after those calls are all the n1 * ... * nk combinations,
\* and once IsMaxed holds further calls leave the values as they are.
C25_OdometerCoversCombinations ==
    incrementers # <<>> =>
        /\ incCalls >= ProductOfSizes(incrementers) => IsMaxed(incrementers)
        /\ IsMaxed(incrementers) =>
              /\ Cardinality(seen) = ProductOfSizes(incrementers)
              /\ maxedState = CurrentValues(incrementers)

\* ------------------------------------------ hill climb: the stale counter

\* The rule of the stale counter over one step of the loop: cleared when the
\* current candidate beats the best of the generation and one more when it
\* does not; then a reseed exactly when the counter is above regenAfter,
\* which puts one new candidate of a random key in the place of the current
\* candidate and of the best, clears the counter and moves the generation on
\* by one.
StaleCounterStep ==
    /\ (hcPc = "loop" /\ hcPc' = "check") =>
          IF currentCandidate.Fitness > bestOfGeneration.Fitness
          THEN fitnessGenerations' = 0
          ELSE fitnessGenerations' = fitnessGenerations + 1
    /\ (hcPc = "check" /\ hcPc' = "loop") =>
          /\ (reseeds' = reseeds + 1) <=> (fitnessGenerations > hcParams.regenAfter)
          /\ (reseeds' = reseeds + 1) =>
                /\ bestOfGeneration'.Key \in RandomKeys
                /\ currentCandidate' = bestOfGeneration'
                /\ fitnessGenerations' = 0
                /\ currentGeneration' = currentGeneration + 1
          /\ (reseeds' = reseeds) =>
                UNCHANGED <<bestOfGeneration, fitnessGenerations, currentGeneration>>

\* C26: the stale counter is the number of iterations in a row, since the
\* start of the trajectory or its last improvement, in which the current
\* candidate did not beat the best of the generation: zero at the start of
\* every trajectory, the first included, cleared on an improvement and one
\* more otherwise; a reseed happens exactly when it is above regenAfter,
\* replaces the current and the best candidate, clears the counter and moves
\* the generation on by one.
C26_StaleCounterCountsFromZero ==
    /\ hcPc = "loop" => fitnessGenerations = 0
    /\ [][StaleCounterStep]_vars

\* ------------------------------------- word search: channel and collector

\* The word lists sent that lie within the bounds, in the order sent.
EmittedWithinBounds == SelectSeq(emitted, WithinBounds)

\* C27: the solutions channel is closed only after the whole search has
\* returned, and the solve returns only after the one collector has dealt
\* with every word list sent: nothing is sent on the closed channel, a sender
\* with a list to send always has the collector to take it, and every list
\* sent that lies within the bounds is in the result returned exactly once.
C27_CloseAfterSearchReturnAfterCollector ==
    /\ solutionClosed => (toSend = <<>> /\ startLetters = {} /\ wsPc \in {"wait", "returned"})
    /\ toSend # <<>> => (~solutionClosed /\ collectorPc \in {"recv", "filter"})
    /\ Len(results) + Len(received) <= Len(emitted)
    /\ wsPc = "returned" =>
          /\ collectorPc = "done"
          /\ received = <<>>
          /\ results = EmittedWithinBounds
          /\ \A i \in 1..Len(emitted) :
                WithinBounds(emitted[i]) =>
                    Cardinality({j \in 1..Len(results) : results[j] = emitted[i]}) = 1

\* A letter bank solve has returned after sending three word lists or more,
\* of which one at least was dropped and two at least were kept.
C27_Witness ==
    /\ solver = "letterbank"
    /\ wsPc = "returned"
    /\ solutionClosed
    /\ Len(emitted) >= 3
    /\ Len(results) >= 2
    /\ Len(results) < Len(emitted)

\* --------------------------------------------------- partitioning matches

\* The words of one letter, as a cipher word and its candidates.
OneLetterWords == {<<b>> : b \in UpperLetters}

\* The matches of a cipher word: its pattern and a list of candidates.
PartitionSources ==
    {[Word |-> w, CryptPattern |-> SubstitutionPattern(w), PatternMatches |-> ms] :
        w \in OneLetterWords, ms \in SeqsUpTo(OneLetterWords, MaxMatches)}

\* A caller about to partition a source into count >= 1 partitions.
PMInit ==
    /\ EarlyIdle
    /\ LBIdle
    /\ FreqIdle
    /\ NgIdle
    /\ CaesarIdle
    /\ IncIdle
    /\ MapIdle
    /\ pmCount \in 1..MaxPartitions
    /\ pmSource \in PartitionSources
    /\ partitions = <<>>
    /\ pmPc = "call"

\* partitions := PartitionMatches(count, source)
PMPartition ==
    /\ pmPc = "call"
    /\ partitions' = PartitionMatches(pmCount, pmSource)
    /\ pmPc' = "partitioned"
    /\ UNCHANGED <<pmOthers, pmCount, pmSource>>

\* The caller goes on to partition the source into one partition more.
PMNextCall ==
    /\ pmPc = "partitioned"
    /\ pmCount < MaxPartitions
    /\ pmCount' = pmCount + 1
    /\ partitions' = <<>>
    /\ pmPc' = "call"
    /\ UNCHANGED <<pmOthers, pmSource>>

PMNext == PMPartition \/ PMNextCall

SpecPartition == PMInit /\ [][PMNext]_vars

\* C28: PartitionMatches(count, source) with count >= 1 returns count
\* partitions, each with the word and the pattern of the source, and puts the
\* match at index i of the source in partition i mod count: every match is
\* in one partition only, in the order of the source, and the sizes of the
\* partitions differ by one at most.
C28_PartitionsRoundRobin ==
    pmPc = "partitioned" =>
        LET n == Len(pmSource.PatternMatches)
            size(p) == Len(partitions[p].PatternMatches)
        IN /\ Len(partitions) = pmCount
           /\ \A p \in 1..Len(partitions) :
                 /\ partitions[p].Word = pmSource.Word
                 /\ partitions[p].CryptPattern = pmSource.CryptPattern
                 /\ size(p) = Cardinality({i \in 0..(n - 1) : i % pmCount = p - 1})
           /\ \A i \in 0..(n - 1) :
                 LET p == (i % pmCount) + 1
                     k == (i \div pmCount) + 1
                 IN k <= size(p) /\ partitions[p].PatternMatches[k] = pmSource.PatternMatches[i + 1]
           /\ \A p, q \in 1..Len(partitions) : size(p) - size(q) <= 1

\* Four matches have been dealt to three partitions: two to the first and
\* one to each of the others.
C28_Witness ==
    /\ pmPc = "partitioned"
    /\ pmCount = 3
    /\ Len(pmSource.PatternMatches) = 4
    /\ Len(partitions[1].PatternMatches) = 2
    /\ Len(partitions[3].PatternMatches) = 1

\* --------------------------------------------------- hill climb: the keys

\* A key that holds every letter of the alphabet once.
IsPermutationOfAlphabet(key) ==
    /\ Len(key) = Len(lettersInOrder)
    /\ \A i \in 1..Len(lettersInOrder) : \E j \in 1..Len(key) : key[j] = lettersInOrder[i]

\* The candidates the climb holds: the current one, the best of the
\* generation, those of the archive and those of the results.
HeldCandidates ==
    {currentCandidate, bestOfGeneration}
        \cup {candidates[i] : i \in 1..Len(candidates)}
        \cup {hcResults[i].Candidate : i \in 1..Len(hcResults)}

\* The candidate's fitness is that of its key as the key is now.
ScoredWithItsKey(candidate) ==
    candidate.Fitness = CalculateNgramFitness(DecipherStringFromKey(justCipherText, candidate.Key),
                                              hcParams.frequencyMap, hcParams.ngramSize)

CopyByteMapShared(heap, input) == [heap |-> heap, map |-> input]

\* CopyByteMap(input): a new map with the entries of the input.
CopyByteMapObject(heap, input) == [heap |-> Append(heap, CopyByteMap(heap[input])), map |-> Len(heap) + 1]

\* A call of CollectValidMaps(matches[depth:], currentMap, resultsChannel)
\* about to test its matches, with what the map held when it was received.
CallFrame(heap, depth, currentMap) ==
    [depth |-> depth, currentMap |-> currentMap, received |-> heap[currentMap], k |-> 1]

\* The ciphertexts and the dictionaries of the solve: one word and two, with
\* a letter met again in the second word.
MapCipherTexts ==
    LET A == ASCII_A
        Z == ASCII_A + NumLetters - 1
    IN {<<A>>, <<A, SPACE, A>>, <<Z, SPACE, A, Z>>, <<A, Z, SPACE, A>>}

MapDictionaries ==
    LET A == ASCII_A
        Z == ASCII_A + NumLetters - 1
    IN SUBSET {<<A>>, <<Z>>, <<A, Z>>, <<Z, A>>} \ {{}}

\* PartitionMapCollection has started its workers: each has its matches and
\* a map of its own, new and empty, and is about to call CollectValidMaps.
MapInit ==
    /\ EarlyIdle
    /\ LBIdle
    /\ FreqIdle
    /\ NgIdle
    /\ CaesarIdle
    /\ IncIdle
    /\ PMIdle
    /\ \E words \in MapDictionaries, text \in MapCipherTexts, workers \in 1..MaxConcurrency :
          \E matchData \in SortedOrders(BuildSubstitutionData(text, ReadDictionaryToTrie(words))) :
             LET heads == PartitionMatches(PartitionCount(matchData, workers), matchData[1])
             IN /\ workerMatches = [w \in 1..Len(heads) |-> <<heads[w]>> \o Tail(matchData)]
                /\ mapHeap = [w \in 1..Len(heads) |-> <<>>]
                /\ callStack = [w \in 1..Len(heads) |-> <<CallFrame(mapHeap, 1, w)>>]
    /\ mapsSent = <<>>

\* The call of worker w that runs, and the matches it was given.
TopFrame(w) == callStack[w][Len(callStack[w])]

FrameMatches(w) == SubSeq(workerMatches[w], TopFrame(w).depth, Len(workerMatches[w]))

\* No match is left to test: the map received is sent, and the call returns.
MapSend(w) ==
    /\ callStack[w] # <<>>
    /\ Len(FrameMatches(w)) = 0
    /\ mapsSent' = Append(mapsSent, [map |-> TopFrame(w).currentMap, worker |-> w,
                                     sent |-> mapHeap[TopFrame(w).currentMap]])
    /\ callStack' = [callStack EXCEPT ![w] = SubSeq(@, 1, Len(@) - 1)]
    /\ UNCHANGED <<mapOthers, workerMatches, mapHeap>>

\* The word has no match, or every match has been tried: the call returns.
MapReturn(w) ==
    /\ callStack[w] # <<>>
    /\ Len(FrameMatches(w)) > 0
    /\ TopFrame(w).k > Len(FrameMatches(w)[1].PatternMatches)
    /\ callStack' = [callStack EXCEPT ![w] = SubSeq(@, 1, Len(@) - 1)]
    /\ UNCHANGED <<mapOthers, workerMatches, mapHeap, mapsSent>>

\* One turn of the loop over the matches: the map is copied, the bytes of the
\* match are written in the copy until one does not work, and if all worked
\* CollectValidMaps is called on the rest of the matches with the copy.
MapTryMatch(w) ==
    /\ callStack[w] # <<>>
    /\ Len(FrameMatches(w)) > 0
    /\ TopFrame(w).k <= Len(FrameMatches(w)[1].PatternMatches)
    /\ LET frame == TopFrame(w)
           copied == CopyByteMapObject(mapHeap, frame.currentMap)
           tried == ApplyMatch(FrameMatches(w)[1].Word, FrameMatches(w)[1].PatternMatches[frame.k], 1,
                               copied.heap[copied.map])
           heap == [copied.heap EXCEPT ![copied.map] = tried.copyMap]
           stepped == [callStack[w] EXCEPT ![Len(callStack[w])].k = @ + 1]
       IN /\ mapHeap' = heap
          /\ callStack' = [callStack EXCEPT ![w] =
                              IF tried.allBytesWorked
                              THEN Append(stepped, CallFrame(heap, frame.depth + 1, copied.map))
                              ELSE stepped]
    /\ UNCHANGED <<mapOthers, workerMatches, mapsSent>>

MapNext ==
    \/ \E w \in 1..MaxConcurrency : w <= Len(callStack) /\ MapSend(w)
    \/ \E w \in 1..MaxConcurrency : w <= Len(callStack) /\ MapReturn(w)
    \/ \E w \in 1..MaxConcurrency : w <= Len(callStack) /\ MapTryMatch(w)

SpecMapObjects == MapInit /\ [][MapNext]_vars

\* The maps a worker holds: those its calls received and those it sent.
MapsOfWorker(w) ==
    {callStack[w][i].currentMap : i \in 1..Len(callStack[w])}
        \cup {mapsSent[i].map : i \in {j \in 1..Len(mapsSent) : mapsSent[j].worker = w}}

\* What a worker has sent, in order, as the maps are now.
SentByWorker(w) ==
    LET Mine(s) == s.worker = w
        mine == SelectSeq(mapsSent, Mine)
    IN [i \in 1..Len(mine) |-> mapHeap[mine[i].map]]

\* C30: CollectValidMaps never changes the map it receives: each match is
\* tried on a new copy, so a match that is rejected, with some of its bytes
\* written or none, leaves nothing for the next match; a map that was sent
\* is never changed afterwards; and no map is held by two workers.
C30_ReceivedAndSentMapsUnchanged ==
    /\ \A w \in 1..Len(callStack) : \A i \in 1..Len(callStack[w]) :
          mapHeap[callStack[w][i].currentMap] = callStack[w][i].received
    /\ \A i \in 1..Len(mapsSent) : mapHeap[mapsSent[i].map] = mapsSent[i].sent
    /\ \A v, w \in 1..Len(callStack) : v # w => MapsOfWorker(v) \cap MapsOfWorker(w) = {}
    /\ \A w \in 1..Len(callStack) :
          callStack[w] = <<>> => SentByWorker(w) = CollectValidMaps(workerMatches[w], <<>>)

\* Two workers have returned and have sent maps, and a copy in which a
\* rejected match had written a byte was left behind, sent by no one.
C30_Witness ==
    /\ Len(callStack) = 2
    /\ callStack[1] = <<>>
    /\ callStack[2] = <<>>
    /\ Len(mapsSent) >= 2
    /\ \E i \in 1..Len(mapHeap) :
          /\ Cardinality(DOMAIN mapHeap[i]) = 2
          /\ \A s \in 1..Len(mapsSent) : mapsSent[s].map # i /\ mapsSent[s].sent # mapHeap[i]

====
